---- MODULE Spec2Model ----
(***************************************************************************)
(* The component-scoped, tag-filterable Logger of src/utils/Logger.ts:     *)
(* its filtering model (global flag x component level x tags), its console *)
(* sink, and its buffered file sink with asynchronous flushes against the  *)
(* vault adapter.                                                          *)
(*                                                                         *)
(* Specifications:                                                         *)
(*   Spec          configuration and logging calls, file sink disabled     *)
(*   SpecConfig    configuration calls only                                *)
(*   SpecSink      logging calls against the console and the file buffer   *)
(*   SpecScenario  debug, info, warn, error in sequence on a fresh logger  *)
(*   SpecFile      the file sink against the vault, flushes in flight      *)
(*   SpecRetry     flushes issued one after the other, writes may reject   *)
(*   SpecCapacity  the buffer filling up to its capacity                   *)
(*   SpecLifecycle the file sink with a vault whose operations complete    *)
(*   SpecThrow     the file sink with a vault that throws or rejects       *)
(*   SpecArgs      records with arguments that cannot be serialized        *)
(*   SpecBuild     the calls of SpecSink in the three builds               *)
(*   SpecOrder     numbered records with flushes issued by hand            *)
(*   SpecLevels    configuration calls with every admitted argument        *)
(*   SpecUnknown   calls that name a component outside the enumeration     *)
(*   SpecHandle    component loggers made by createLogger                  *)
(*   SpecTags      handle.debug with every shape of argument list          *)
(*   SpecClear     tag filters set and cleared                             *)
(*   SpecLeftover  the file sink switched off and on with records pending  *)
(*   SpecDiscard   the buffer emptied by clearBuffer between flushes       *)
(*   SpecNoStat    the file sink with a stat that resolves with no value   *)
(*   SpecSetLevel  setComponentLevel with the file sink in use             *)
(*   SpecClean     the debug cleanup script on one file                    *)
(***************************************************************************)
EXTENDS Integers, Sequences, FiniteSets, TLC

VARIABLES
    BUILD_ENV,           \* build-time constant substituted by the bundler
    config,              \* Logger.config: component -> level
    enabled,             \* Logger.enabled
    tagFilters,          \* Logger.tagFilters: Map<ComponentName, Set<string>>
    fileLoggingEnabled,  \* Logger.fileLoggingEnabled
    app,                 \* Logger.app is set (TRUE) or null (FALSE)
    logFilePath,         \* Logger.logFilePath
    logBuffer,           \* Logger.logBuffer
    console,             \* what reached console.debug/info/warn/error, in order
    now,                 \* the clock read by new Date()
    fileExists,          \* vault: the log file exists
    fileContent,         \* vault: the chunks the log file holds, in order
    flights,             \* flush chains whose storage operations are pending
    faults,              \* storage faults injected so far
    calls,               \* logging calls made so far
    inits,               \* initFileLogging calls made so far
    flushes,             \* flush chains started so far
    last,                \* the last call recorded; cleared by a configuration call
    thrown,              \* an exception has escaped from a call of the logger to its caller
    handles,             \* the component loggers handed out by createLogger
    cleaner,             \* scripts/clean-debug-code.mjs: one run of processFile on one file
    discarded            \* history: the buffers emptied by the clearBuffer calls of SpecDiscard

loggerVars == <<config, enabled, tagFilters, fileLoggingEnabled, app, logFilePath,
                logBuffer, console, flights>>
vars == <<BUILD_ENV, config, enabled, tagFilters, fileLoggingEnabled, app,
          logFilePath, logBuffer, console, now, fileExists, fileContent,
          flights, faults, calls, inits, flushes, last, thrown, handles,
          cleaner, discarded>>

(***************************************************************************)
(* Bounds of the exploration.                                              *)
(***************************************************************************)
MaxCalls == 1        \* logging calls per behaviour of Spec
MaxFileCalls == 1    \* logging calls per behaviour of SpecFile
MaxInits == 1        \* initFileLogging calls per behaviour of SpecFile
MaxFlushes == 2      \* flush chains started per behaviour of SpecFile
MaxFlights == 2      \* flush chains in flight at once
MaxFaults == 1       \* storage operations that reject per behaviour
MaxRetryCalls == 3   \* logging calls per behaviour of SpecRetry
MaxCapacityCalls == 10 \* logging calls per behaviour of SpecCapacity
MaxArgsCalls == 2      \* logging calls per behaviour of SpecArgs
MaxOrderCalls == 2     \* logging calls per behaviour of SpecOrder
MaxHandles == 1        \* component loggers created per behaviour of SpecHandle
MaxLines == 4          \* lines of a file given to the cleanup script in SpecClean
MaxLeftoverInits == 2  \* initFileLogging calls per behaviour of SpecLeftover
MaxClears == 1         \* clearBuffer calls per behaviour of SpecDiscard

(***************************************************************************)
(* Types of the source.                                                    *)
(***************************************************************************)
\* LogLevel, in the order of the `levels` array of shouldLog.
levels == <<"debug", "info", "warn", "error">>
LogLevel == {levels[i] : i \in 1..Len(levels)}

ComponentName == {"main", "modal", "api", "settings", "ui", "events", "general"}

\* Faulty variant: a default of 'info'.
DEFAULT_CONFIG_Info == [c \in ComponentName |-> "info"]

DEFAULT_CONFIG == [c \in ComponentName |-> "warn"]

maxBufferSize == 10
maxFileSize == 1048576

\* Array.prototype.indexOf on the levels array (0-based, -1 when absent).
indexOf(arr, x) ==
    IF \E i \in 1..Len(arr) : arr[i] = x
    THEN (CHOOSE i \in 1..Len(arr) : arr[i] = x /\ \A j \in 1..(i-1) : arr[j] # x) - 1
    ELSE -1

\* The value undefined, as the value of a property of the configuration
\* object or as the result of reading a property the object does not have.
NoValue == "(undefined)"

\* A component name outside the ComponentName type, as it reaches the logger
\* from a string cast with `as any`.
UnknownComponent == "npe"

\* this.config[component]
levelOf(cfg, component) == IF component \in DOMAIN cfg THEN cfg[component] ELSE NoValue

\* An optional array argument (tags?: string[]): absent, or an array.
Undefined == [present |-> FALSE, list |-> <<>>]
Arr(s) == [present |-> TRUE, list |-> s]

\* new Set(tags): the distinct elements, in order of first occurrence.
RECURSIVE NewSet(_)
NewSet(s) ==
    IF s = <<>> THEN <<>>
    ELSE LET init == NewSet(SubSeq(s, 1, Len(s) - 1))
             x == s[Len(s)]
         IN IF \E i \in 1..Len(init) : init[i] = x THEN init ELSE Append(init, x)

\* Set.prototype.has
SetHas(set, x) == \E i \in 1..Len(set) : set[i] = x

\* Map.prototype.has / delete / set on tagFilters
MapHas(map, k) == k \in DOMAIN map
MapDelete(map, k) == [x \in (DOMAIN map) \ {k} |-> map[x]]
MapSet(map, k, v) == [x \in (DOMAIN map) \cup {k} |-> IF x = k THEN v ELSE map[x]]
EmptyMap == [x \in {} |-> <<>>]

\* String.prototype.toUpperCase on a component name
toUpperCase(c) ==
    CASE c = "main" -> "MAIN"
      [] c = "modal" -> "MODAL"
      [] c = "api" -> "API"
      [] c = "settings" -> "SETTINGS"
      [] c = "ui" -> "UI"
      [] c = "events" -> "EVENTS"
      [] c = "general" -> "GENERAL"
      [] c = "npe" -> "NPE"
      [] c = "debug" -> "DEBUG"
      [] c = "info" -> "INFO"
      [] c = "warn" -> "WARN"
      [] c = "error" -> "ERROR"

\* The value of `typeof BUILD_ENV` when the bundler has not defined the constant.
NotDefined == "undefined"

\* Faulty variant: every build but the production build counts as development.
isDevelopment_UnlessProduction == BUILD_ENV # "production"

\* typeof BUILD_ENV !== 'undefined' && BUILD_ENV === 'development'
isDevelopment == BUILD_ENV # NotDefined /\ BUILD_ENV = "development"

(***************************************************************************)
(* Filter engine.                                                          *)
(***************************************************************************)
\* Faulty variants of shouldLog, each with one plausible slip; the properties
\* below are checked to tell the code from each of them.
\* (1) the level comparison is <= instead of <
shouldLogIn_LevelOffByOne(en, cfg, filters, component, level, tags) ==
    IF ~en THEN FALSE
    ELSE IF indexOf(levels, level) <= indexOf(levels, cfg[component]) THEN FALSE
         ELSE IF level = "debug" /\ MapHas(filters, component)
              THEN IF ~tags.present \/ Len(tags.list) = 0 THEN FALSE
                   ELSE \E i \in 1..Len(tags.list) : SetHas(filters[component], tags.list[i])
              ELSE TRUE

\* (2) the level comparison is inverted
shouldLogIn_LevelInverted(en, cfg, filters, component, level, tags) ==
    IF ~en THEN FALSE
    ELSE IF indexOf(levels, level) > indexOf(levels, cfg[component]) THEN FALSE
         ELSE IF level = "debug" /\ MapHas(filters, component)
              THEN IF ~tags.present \/ Len(tags.list) = 0 THEN FALSE
                   ELSE \E i \in 1..Len(tags.list) : SetHas(filters[component], tags.list[i])
              ELSE TRUE

\* (3) every tag of the record must be allowed (every instead of some)
shouldLogIn_TagsEvery(en, cfg, filters, component, level, tags) ==
    IF ~en THEN FALSE
    ELSE IF indexOf(levels, level) < indexOf(levels, cfg[component]) THEN FALSE
         ELSE IF level = "debug" /\ MapHas(filters, component)
              THEN IF ~tags.present \/ Len(tags.list) = 0 THEN FALSE
                   ELSE \A i \in 1..Len(tags.list) : SetHas(filters[component], tags.list[i])
              ELSE TRUE

\* (4) untagged records pass an active filter
shouldLogIn_UntaggedPass(en, cfg, filters, component, level, tags) ==
    IF ~en THEN FALSE
    ELSE IF indexOf(levels, level) < indexOf(levels, cfg[component]) THEN FALSE
         ELSE IF level = "debug" /\ MapHas(filters, component)
              THEN IF ~tags.present \/ Len(tags.list) = 0 THEN TRUE
                   ELSE \E i \in 1..Len(tags.list) : SetHas(filters[component], tags.list[i])
              ELSE TRUE

\* (5) a component without a filter is treated as one with an empty filter
shouldLogIn_NoFilterIsEmpty(en, cfg, filters, component, level, tags) ==
    IF ~en THEN FALSE
    ELSE IF indexOf(levels, level) < indexOf(levels, cfg[component]) THEN FALSE
         ELSE IF level = "debug"
              THEN IF ~MapHas(filters, component) THEN FALSE
                   ELSE IF ~tags.present \/ Len(tags.list) = 0 THEN FALSE
                   ELSE \E i \in 1..Len(tags.list) : SetHas(filters[component], tags.list[i])
              ELSE TRUE

\* (6) the tag filter is applied at every level
shouldLogIn_FilterAllLevels(en, cfg, filters, component, level, tags) ==
    IF ~en THEN FALSE
    ELSE IF indexOf(levels, level) < indexOf(levels, cfg[component]) THEN FALSE
         ELSE IF MapHas(filters, component)
              THEN IF ~tags.present \/ Len(tags.list) = 0 THEN FALSE
                   ELSE \E i \in 1..Len(tags.list) : SetHas(filters[component], tags.list[i])
              ELSE TRUE

\* (7) the global flag is not consulted
shouldLogIn_IgnoresEnabled(en, cfg, filters, component, level, tags) ==
    IF indexOf(levels, level) < indexOf(levels, cfg[component]) THEN FALSE
    ELSE IF level = "debug" /\ MapHas(filters, component)
         THEN IF ~tags.present \/ Len(tags.list) = 0 THEN FALSE
              ELSE \E i \in 1..Len(tags.list) : SetHas(filters[component], tags.list[i])
         ELSE TRUE

\* shouldLog with the logger state it reads made explicit.
shouldLogIn(en, cfg, filters, component, level, tags) ==
    IF ~en THEN FALSE
    ELSE LET componentLevelIndex == indexOf(levels, levelOf(cfg, component))
             requestedLevelIndex == indexOf(levels, level)
         IN IF requestedLevelIndex < componentLevelIndex THEN FALSE
            ELSE IF level = "debug" /\ MapHas(filters, component)
                 THEN LET allowedTags == filters[component]
                      IN IF ~tags.present \/ Len(tags.list) = 0 THEN FALSE
                         ELSE \E i \in 1..Len(tags.list) : SetHas(allowedTags, tags.list[i])
                 ELSE TRUE

shouldLog(component, level, tags) ==
    shouldLogIn(enabled, config, tagFilters, component, level, tags)

\* formatMessage: `[${component.toUpperCase()}]${tagStr} ${message}`; the tag
\* segment is the joined tags, empty for absent or empty tags.
formatMessage(component, message, tags) ==
    LET tagStr == IF tags.present /\ Len(tags.list) > 0 THEN tags.list ELSE <<>>
    IN [component |-> toUpperCase(component), tagStr |-> tagStr, message |-> message]

\* String lengths (UTF-16 units) of the strings the model uses.
StrLen(str) ==
    CASE str \in {"ui"} -> 2
      [] str \in {"m1", "m2", "m3", "m4", "m5", "m6", "m7", "m8", "m9"} -> 2
      [] str \in {"api", "npe", "msg", "m10", "m11", "m12", "m13", "m14", "m15", "m16"} -> 3
      [] str \in {"main", "info", "warn", "data"} -> 4
      [] str \in {"modal", "debug", "error"} -> 5
      [] str \in {"events"} -> 6
      [] str \in {"general"} -> 7
      [] str \in {"settings"} -> 8
      [] str \in {"rendering"} -> 9
      [] str \in {"validation"} -> 10
      [] str \in {"=== Plugin Debug Log Started ==="} -> 32
      [] str \in {"=== Log file cleared (size exceeded 1MB) ==="} -> 44
      [] str \in {"TypeError: Converting circular structure to JSON"} -> 48

\* toUpperCase keeps the length.
StrLenUpper(upper) ==
    CHOOSE n \in 2..8 : \E c \in ComponentName \cup {UnknownComponent} :
                            toUpperCase(c) = upper /\ n = StrLen(c)

RECURSIVE SumLen(_)
SumLen(strs) == IF strs = <<>> THEN 0 ELSE StrLen(Head(strs)) + SumLen(Tail(strs))

\* Length of new Date().toISOString()
IsoLength == 24

\* Length of a formatted message `[COMPONENT][t1,t2] message`.
MessageLength(text) ==
    LET n == Len(text.tagStr)
    IN 2 + StrLenUpper(text.component)
       + (IF n > 0 THEN 2 + SumLen(text.tagStr) + (n - 1) ELSE 0)
       + 1 + StrLen(text.message)

\* Arrays among the supplementary arguments: the empty array, an array of
\* one string, and an array of a string and a number.
EmptyArrayArg == "[]"
TagsArrayArg == "['validation']"
MixedArrayArg == "['validation', 7]"

\* Array.isArray(arg)
isArray(arg) == arg \in {EmptyArrayArg, TagsArrayArg, MixedArrayArg}

\* The items of an array argument, each with its typeof.
ArrayItems(arg) ==
    CASE arg = EmptyArrayArg -> <<>>
      [] arg = TagsArrayArg -> <<[type |-> "string", value |-> "validation"]>>
      [] arg = MixedArrayArg -> <<[type |-> "string", value |-> "validation"],
                                  [type |-> "number", value |-> "7"]>>

\* lastArg.every(item => typeof item === 'string')
everyString(arg) ==
    \A k \in 1..Len(ArrayItems(arg)) : ArrayItems(arg)[k].type = "string"

\* An array of strings as a string[].
AsStrings(arg) == [k \in 1..Len(ArrayItems(arg)) |-> ArrayItems(arg)[k].value]

\* Length of the JSON text of one argument, as an element of the indented
\* argument array: a quoted string, or a nested array, one item per line.
JsonLength(arg) ==
    IF isArray(arg)
    THEN LET items == ArrayItems(arg)
             ItemLength(k) == IF items[k].type = "string"
                              THEN StrLen(items[k].value) + 2 ELSE 1
             RECURSIVE Sum(_)
             Sum(k) == IF k = 0 THEN 0 ELSE 4 + ItemLength(k) + Sum(k - 1)
         IN IF Len(items) = 0 THEN 2
            ELSE 2 + Sum(Len(items)) + 2 * (Len(items) - 1) + 4
    ELSE StrLen(arg) + 2

RECURSIVE SumJson(_)
SumJson(args) == IF args = <<>> THEN 0 ELSE JsonLength(Head(args)) + SumJson(Tail(args))

\* Length of '\n  Arguments: ' + JSON.stringify(args, null, 2).
ArgumentsLength(args) ==
    IF Len(args) > 0
    THEN 14 + 2 + SumJson(args) + 2 * Len(args) + 2 * (Len(args) - 1) + 2
    ELSE 0

\* Supplementary arguments are strings, or one of two objects that
\* JSON.stringify cannot serialize: an object that refers to itself (a
\* TypeError is thrown), and an object whose toJSON method throws a value
\* that has no string conversion, such as Object.create(null).
CircularArg == "{circular}"
ThrowingArg == "{toJSON throws}"

\* JSON.stringify(args, null, 2) throws.
stringifyThrows(args) == \E i \in 1..Len(args) : args[i] \in {CircularArg, ThrowingArg}

\* The argument at which JSON.stringify, going through the array in order, throws.
firstThrowing(args) ==
    args[CHOOSE i \in 1..Len(args) :
            /\ args[i] \in {CircularArg, ThrowingArg}
            /\ \A j \in 1..(i - 1) : args[j] \notin {CircularArg, ThrowingArg}]

\* String(error) of the TypeError of a circular structure (its first line).
SerializeError == "TypeError: Converting circular structure to JSON"

\* '[Unable to serialize arguments: ' + String(error) + ']'
Placeholder == <<"[Unable to serialize arguments: ", SerializeError, "]">>

\* formatForFile ends by an exception: String(error) in the catch block throws
\* in its turn when the value thrown by toJSON cannot be converted to a string.
formatForFileThrows(args) ==
    Len(args) > 0 /\ stringifyThrows(args) /\ firstThrowing(args) = ThrowingArg

\* formatForFile: timestamp, upper-cased level, formatted message, arguments
\* (their JSON text, or the placeholder when JSON.stringify throws).
formatForFile(component, level, message, tags, args) ==
    [kind |-> "record", timestamp |-> now, level |-> toUpperCase(level),
     text |-> formatMessage(component, message, tags),
     args |-> IF Len(args) > 0 /\ stringifyThrows(args) THEN Placeholder ELSE args,
     length |-> IsoLength + 6 + StrLen(level)
                + MessageLength(formatMessage(component, message, tags))
                + (IF Len(args) > 0 /\ stringifyThrows(args)
                   THEN 14 + 32 + StrLen(SerializeError) + 1
                   ELSE ArgumentsLength(args))
                + 1]

\* getTagFilters: Array.from(filters), or undefined.
getTagFilters(component) ==
    IF MapHas(tagFilters, component) THEN Arr(tagFilters[component]) ELSE Undefined

(***************************************************************************)
(* Buffered file sink.                                                     *)
(***************************************************************************)
\* A flush chain just started by flushBuffer: the joined buffer is captured
\* and adapter.exists(path) is pending.
NewFlight(buf) == [stage |-> "exists", content |-> buf, write |-> "", data |-> <<>>]

\* flushBuffer, as the flush chains in flight after the call.
\* Faulty variant: the flush does not look at the flag of the file sink.
flushBufferIn_IgnoresFlag(fle, ap, buf, fl) ==
    IF ~ap \/ Len(buf) = 0 THEN fl
    ELSE Append(fl, NewFlight(buf))

flushBufferIn(fle, ap, buf, fl) ==
    IF ~fle \/ ~ap \/ Len(buf) = 0 THEN fl
    ELSE Append(fl, NewFlight(buf))

\* Faulty variant: the buffer is flushed once it is above its capacity.
writeToFileIn_FlushesAbove(fle, ap, buf, fl, message) ==
    IF ~fle \/ ~ap THEN [buf |-> buf, fl |-> fl]
    ELSE LET pushed == Append(buf, message)
         IN [buf |-> pushed,
             fl |-> IF Len(pushed) > maxBufferSize
                    THEN flushBufferIn(fle, ap, pushed, fl)
                    ELSE fl]

\* writeToFile, as the buffer and the flush chains after the call.
writeToFileIn(fle, ap, buf, fl, message) ==
    IF ~fle \/ ~ap THEN [buf |-> buf, fl |-> fl]
    ELSE LET pushed == Append(buf, message)
         IN [buf |-> pushed,
             fl |-> IF Len(pushed) >= maxBufferSize
                    THEN flushBufferIn(fle, ap, pushed, fl)
                    ELSE fl]

startBanner == [kind |-> "banner", timestamp |-> now, level |-> "",
                text |-> [component |-> "", tagStr |-> <<>>,
                          message |-> "=== Plugin Debug Log Started ==="],
                args |-> <<>>,
                length |-> IsoLength + 3 + StrLen("=== Plugin Debug Log Started ===") + 1]

clearHeader == [kind |-> "banner", timestamp |-> now, level |-> "",
                text |-> [component |-> "", tagStr |-> <<>>,
                          message |-> "=== Log file cleared (size exceeded 1MB) ==="],
                args |-> <<>>,
                length |-> IsoLength + 3 + StrLen("=== Log file cleared (size exceeded 1MB) ===") + 1]

\* Faulty variant: file logging is switched on without the start banner.
initFileLogging_NoBanner(logFileName) ==
    /\ app' = TRUE
    /\ logFilePath' = logFileName
    /\ fileLoggingEnabled' = TRUE
    /\ UNCHANGED <<config, enabled, tagFilters, console, logBuffer, flights>>

initFileLogging(logFileName) ==
    LET w == writeToFileIn(TRUE, TRUE, logBuffer, flights, startBanner)
    IN /\ app' = TRUE
       /\ logFilePath' = logFileName
       /\ fileLoggingEnabled' = TRUE
       /\ logBuffer' = w.buf
       /\ flights' = w.fl
       /\ UNCHANGED <<config, enabled, tagFilters, console>>

\* Faulty variant: the flag is lowered before the flush, which then does nothing.
disableFileLogging_DisablesFirst ==
    /\ flights' = flushBufferIn(FALSE, app, logBuffer, flights)
    /\ fileLoggingEnabled' = FALSE
    /\ UNCHANGED <<config, enabled, tagFilters, app, logFilePath, logBuffer, console>>

disableFileLogging ==
    /\ flights' = IF fileLoggingEnabled /\ Len(logBuffer) > 0
                  THEN flushBufferIn(fileLoggingEnabled, app, logBuffer, flights)
                  ELSE flights
    /\ fileLoggingEnabled' = FALSE
    /\ UNCHANGED <<config, enabled, tagFilters, app, logFilePath, logBuffer, console>>

flush ==
    /\ flights' = flushBufferIn(fileLoggingEnabled, app, logBuffer, flights)
    /\ UNCHANGED <<config, enabled, tagFilters, fileLoggingEnabled, app, logFilePath,
                   logBuffer, console>>

\* Faulty variant: the buffer is flushed before it is emptied.
clearBuffer_FlushesFirst ==
    /\ logBuffer' = <<>>
    /\ flights' = flushBufferIn(fileLoggingEnabled, app, logBuffer, flights)
    /\ UNCHANGED <<config, enabled, tagFilters, fileLoggingEnabled, app, logFilePath,
                   console>>

clearBuffer ==
    /\ logBuffer' = <<>>
    /\ UNCHANGED <<config, enabled, tagFilters, fileLoggingEnabled, app, logFilePath,
                   console, flights>>

(***************************************************************************)
(* Configuration.                                                          *)
(***************************************************************************)
\* setConfig: { ...this.config, ...config } for a Partial<LoggerConfig>.
setConfig(partial) ==
    /\ config' = [c \in DOMAIN config \cup DOMAIN partial |->
                    IF c \in DOMAIN partial THEN partial[c] ELSE config[c]]
    /\ UNCHANGED <<enabled, tagFilters, fileLoggingEnabled, app, logFilePath,
                   logBuffer, console, flights>>

setEnabled(e) ==
    /\ enabled' = e
    /\ UNCHANGED <<config, tagFilters, fileLoggingEnabled, app, logFilePath,
                   logBuffer, console, flights>>

\* Faulty variant: an omitted or empty tags argument leaves the filter in place.
setComponentLevel_KeepsFilter(component, level, tags) ==
    /\ config' = [config EXCEPT ![component] = level]
    /\ tagFilters' = IF tags.present /\ Len(tags.list) > 0
                     THEN MapSet(tagFilters, component, NewSet(tags.list))
                     ELSE tagFilters
    /\ UNCHANGED <<enabled, fileLoggingEnabled, app, logFilePath, logBuffer,
                   console, flights>>

\* Faulty variant: the tag filters are replaced by a fresh Map that holds the
\* filter of the component only.
setComponentLevel_FreshMap(component, level, tags) ==
    /\ config' = MapSet(config, component, level)
    /\ tagFilters' = IF tags.present /\ Len(tags.list) > 0
                     THEN MapSet(EmptyMap, component, NewSet(tags.list))
                     ELSE EmptyMap
    /\ UNCHANGED <<enabled, fileLoggingEnabled, app, logFilePath, logBuffer,
                   console, flights>>

\* this.config[component] = level creates the property when it is missing.
setComponentLevel(component, level, tags) ==
    /\ config' = MapSet(config, component, level)
    /\ tagFilters' = IF tags.present /\ Len(tags.list) > 0
                     THEN MapSet(tagFilters, component, NewSet(tags.list))
                     ELSE MapDelete(tagFilters, component)
    /\ UNCHANGED <<enabled, fileLoggingEnabled, app, logFilePath, logBuffer,
                   console, flights>>

\* Faulty variant: the filters of all components are removed.
clearTagFilters_ClearsAll(component) ==
    /\ tagFilters' = EmptyMap
    /\ UNCHANGED <<config, enabled, fileLoggingEnabled, app, logFilePath, logBuffer,
                   console, flights>>

clearTagFilters(component) ==
    /\ tagFilters' = MapDelete(tagFilters, component)
    /\ UNCHANGED <<config, enabled, fileLoggingEnabled, app, logFilePath, logBuffer,
                   console, flights>>

clearAllTagFilters ==
    /\ tagFilters' = EmptyMap
    /\ UNCHANGED <<config, enabled, fileLoggingEnabled, app, logFilePath, logBuffer,
                   console, flights>>

(***************************************************************************)
(* Logging calls.                                                          *)
(***************************************************************************)
\* What the console sink receives: the console method, the formatted message
\* and the supplementary arguments.
ConsoleEntry(method, text, args) == [method |-> method, text |-> text, args |-> args]

\* Faulty variant: the record is queued whether or not file logging is enabled.
emit_SkipsFlagCheck(level, component, message, tags, args) ==
    IF shouldLog(component, level, tags)
    THEN LET w == writeToFileIn(TRUE, app, logBuffer, flights,
                                formatForFile(component, level, message, tags, args))
         IN /\ console' = Append(console,
                    ConsoleEntry(level, formatMessage(component, message, tags), args))
            /\ logBuffer' = w.buf
            /\ flights' = w.fl
            /\ UNCHANGED <<config, enabled, tagFilters, fileLoggingEnabled, app,
                           logFilePath>>
    ELSE UNCHANGED loggerVars

\* The body shared by debug, info, warn and error: filter, console, file sink.
\* When formatForFile throws, the call ends there, after the console.
emit(level, component, message, tags, args) ==
    IF shouldLog(component, level, tags)
    THEN LET w == IF fileLoggingEnabled /\ ~formatForFileThrows(args)
                  THEN writeToFileIn(fileLoggingEnabled, app, logBuffer, flights,
                                     formatForFile(component, level, message, tags, args))
                  ELSE [buf |-> logBuffer, fl |-> flights]
         IN /\ console' = Append(console,
                    ConsoleEntry(level, formatMessage(component, message, tags), args))
            /\ logBuffer' = w.buf
            /\ flights' = w.fl
            /\ UNCHANGED <<config, enabled, tagFilters, fileLoggingEnabled, app,
                           logFilePath>>
    ELSE UNCHANGED loggerVars

debug(component, message, tags, args) ==
    IF ~isDevelopment THEN UNCHANGED loggerVars
    ELSE emit("debug", component, message, tags, args)

info(component, message, args) == emit("info", component, message, Undefined, args)

warn(component, message, args) == emit("warn", component, message, Undefined, args)

error(component, message, args) == emit("error", component, message, Undefined, args)

\* createComponentLogger(component) / createLogger(component): the closures
\* of the handle hold the component and the logger, nothing else. (createdAt,
\* the level of the component when the handle was made, is history kept for
\* the properties; no method reads it.)
createComponentLogger(component) ==
    [component |-> component, createdAt |-> levelOf(config, component)]

\* Faulty variant: the handle goes by the level its component had when the
\* handle was created.
handleEmit_LevelAtCreation(h, level, message, args) ==
    IF shouldLogIn(enabled, MapSet(config, h.component, h.createdAt), tagFilters,
                   h.component, level, Undefined)
    THEN LET w == IF fileLoggingEnabled /\ ~formatForFileThrows(args)
                  THEN writeToFileIn(fileLoggingEnabled, app, logBuffer, flights,
                                     formatForFile(h.component, level, message, Undefined, args))
                  ELSE [buf |-> logBuffer, fl |-> flights]
         IN /\ console' = Append(console,
                    ConsoleEntry(level, formatMessage(h.component, message, Undefined), args))
            /\ logBuffer' = w.buf
            /\ flights' = w.fl
            /\ UNCHANGED <<config, enabled, tagFilters, fileLoggingEnabled, app,
                           logFilePath>>
    ELSE UNCHANGED loggerVars

\* info, warn and error of a handle: this.info(component, message, ...args), etc.
handleEmit(h, level, message, args) ==
    CASE level = "info" -> info(h.component, message, args)
      [] level = "warn" -> warn(h.component, message, args)
      [] level = "error" -> error(h.component, message, args)

\* Faulty variant: any array in last position is taken as the tags.
handleDebug_AnyArray(h, message, args) ==
    IF Len(args) > 0 /\ isArray(args[Len(args)])
    THEN debug(h.component, message, Arr(AsStrings(args[Len(args)])),
               SubSeq(args, 1, Len(args) - 1))
    ELSE debug(h.component, message, Undefined, args)

\* debug of a handle, called with (message, ...args): when the last argument
\* is an array whose items are all strings it is taken off the arguments
\* (args.pop()) and passed as the tags; otherwise all arguments are passed on
\* and the tags are undefined. (args[-1] of an empty list is undefined.)
handleDebug(h, message, args) ==
    IF Len(args) > 0 /\ isArray(args[Len(args)]) /\ everyString(args[Len(args)])
    THEN debug(h.component, message, Arr(AsStrings(args[Len(args)])),
               SubSeq(args, 1, Len(args) - 1))
    ELSE debug(h.component, message, Undefined, args)

\* The logging call ends by an exception: formatForFile, called once the
\* record has passed the filter and the flag of the file sink is up, throws.
emitThrows(level, component, tags, args) ==
    /\ level = "debug" => isDevelopment
    /\ shouldLog(component, level, tags)
    /\ fileLoggingEnabled
    /\ formatForFileThrows(args)

(***************************************************************************)
(* The vault adapter: each pending storage operation of a flush chain      *)
(* completes in a step of its own, and its promise callback runs with it.  *)
(***************************************************************************)
RemoveAt(seq, i) == SubSeq(seq, 1, i - 1) \o SubSeq(seq, i + 1, Len(seq))

RECURSIVE ByteSize(_)
ByteSize(chunks) ==
    IF chunks = <<>> THEN 0 ELSE Head(chunks).length + ByteSize(Tail(chunks))

\* console.error('[Logger] Failed ...', error) from a .catch of flushBuffer.
FailureReport(message) ==
    ConsoleEntry("error", [component |-> "[Logger]", tagStr |-> <<>>, message |-> message],
                 <<"error">>)

FailureMessage(flight) ==
    CASE flight.stage = "exists" -> "Failed to check if log file exists:"
      [] flight.stage = "stat" -> "Failed to get log file stats:"
      [] flight.stage = "read" -> "Failed to read existing log file:"
      [] flight.stage = "write" /\ flight.write = "clear" ->
            "Failed to clear and write log file:"
      [] flight.stage = "write" /\ flight.write = "append" ->
            "Failed to write to log file (append):"
      [] flight.stage = "write" /\ flight.write = "create" ->
            "Failed to create log file:"

\* Faulty variant: the answer of exists is not looked at, stat always follows.
ExistsResolves_AlwaysStats(i) ==
    /\ flights[i].stage = "exists"
    /\ flights' = IF ~app THEN RemoveAt(flights, i)
                  ELSE [flights EXCEPT ![i].stage = "stat"]
    /\ UNCHANGED <<config, enabled, tagFilters, fileLoggingEnabled, app, logFilePath,
                   logBuffer, console, fileExists, fileContent>>

\* adapter.exists(path) resolves
ExistsResolves(i) ==
    /\ flights[i].stage = "exists"
    /\ flights' = IF ~app THEN RemoveAt(flights, i)
                  ELSE IF fileExists
                  THEN [flights EXCEPT ![i].stage = "stat"]
                  ELSE [flights EXCEPT ![i].stage = "write", ![i].write = "create",
                                       ![i].data = flights[i].content]
    /\ UNCHANGED <<config, enabled, tagFilters, fileLoggingEnabled, app, logFilePath,
                   logBuffer, console, fileExists, fileContent>>

\* Faulty variant: the size is never compared, the file is always read.
StatResolves_AlwaysReads(i) ==
    /\ flights[i].stage = "stat"
    /\ fileExists
    /\ flights' = IF ~app THEN RemoveAt(flights, i)
                  ELSE [flights EXCEPT ![i].stage = "read"]
    /\ UNCHANGED <<config, enabled, tagFilters, fileLoggingEnabled, app, logFilePath,
                   logBuffer, console, fileExists, fileContent>>

\* adapter.stat(path) resolves with the file's size
StatResolves(i) ==
    /\ flights[i].stage = "stat"
    /\ fileExists
    /\ flights' = IF ~app THEN RemoveAt(flights, i)
                  ELSE IF ByteSize(fileContent) > maxFileSize
                  THEN [flights EXCEPT ![i].stage = "write", ![i].write = "clear",
                                       ![i].data = <<clearHeader>> \o flights[i].content]
                  ELSE [flights EXCEPT ![i].stage = "read"]
    /\ UNCHANGED <<config, enabled, tagFilters, fileLoggingEnabled, app, logFilePath,
                   logBuffer, console, fileExists, fileContent>>

\* Faulty variant: the missing stat is reported as a failure.
StatResolvesNull_Reports(i) ==
    /\ flights[i].stage = "stat"
    /\ flights' = RemoveAt(flights, i)
    /\ console' = Append(console, FailureReport("Failed to get log file stats:"))
    /\ UNCHANGED <<config, enabled, tagFilters, fileLoggingEnabled, app, logFilePath,
                   logBuffer, fileExists, fileContent>>

\* adapter.stat(path) resolves with null
StatResolvesNull(i) ==
    /\ flights[i].stage = "stat"
    /\ flights' = RemoveAt(flights, i)
    /\ UNCHANGED <<config, enabled, tagFilters, fileLoggingEnabled, app, logFilePath,
                   logBuffer, console, fileExists, fileContent>>

\* adapter.read(path) resolves with the file's content
ReadResolves(i) ==
    /\ flights[i].stage = "read"
    /\ fileExists
    /\ flights' = IF ~app THEN RemoveAt(flights, i)
                  ELSE [flights EXCEPT ![i].stage = "write", ![i].write = "append",
                                       ![i].data = fileContent \o flights[i].content]
    /\ UNCHANGED <<config, enabled, tagFilters, fileLoggingEnabled, app, logFilePath,
                   logBuffer, console, fileExists, fileContent>>

\* adapter.write(path, data) resolves: the file holds data, the buffer is reset
WriteResolves(i) ==
    /\ flights[i].stage = "write"
    /\ fileExists' = TRUE
    /\ fileContent' = flights[i].data
    /\ logBuffer' = <<>>
    /\ flights' = RemoveAt(flights, i)
    /\ UNCHANGED <<config, enabled, tagFilters, fileLoggingEnabled, app, logFilePath,
                   console>>

\* Faulty variant: the rejected write has reached the file all the same.
Rejects_AfterWriting(i) ==
    /\ console' = Append(console, FailureReport(FailureMessage(flights[i])))
    /\ flights' = RemoveAt(flights, i)
    /\ fileExists' = (fileExists \/ flights[i].stage = "write")
    /\ fileContent' = IF flights[i].stage = "write" THEN flights[i].data ELSE fileContent
    /\ UNCHANGED <<config, enabled, tagFilters, fileLoggingEnabled, app, logFilePath,
                   logBuffer>>

\* Faulty variant: the failure handler also resets the buffer.
Rejects_ClearsBuffer(i) ==
    /\ console' = Append(console, FailureReport(FailureMessage(flights[i])))
    /\ flights' = RemoveAt(flights, i)
    /\ logBuffer' = <<>>
    /\ UNCHANGED <<config, enabled, tagFilters, fileLoggingEnabled, app, logFilePath,
                   fileExists, fileContent>>

\* the pending storage operation of a flush chain rejects
Rejects(i) ==
    /\ console' = Append(console, FailureReport(FailureMessage(flights[i])))
    /\ flights' = RemoveAt(flights, i)
    /\ UNCHANGED <<config, enabled, tagFilters, fileLoggingEnabled, app, logFilePath,
                   logBuffer, fileExists, fileContent>>

(***************************************************************************)
(* A vault whose adapter.exists may throw synchronously: the calls that    *)
(* reach flushBuffer, with the try/catch around its body. (A storage call  *)
(* that throws inside a promise callback rejects the promise of that       *)
(* callback and ends in the .catch of the operation before it: the effect  *)
(* of Rejects on that operation.)                                          *)
(***************************************************************************)
\* console.error('Failed to flush log buffer:', error) from the catch of flushBuffer.
SyncFailureReport ==
    ConsoleEntry("error", [component |-> "", tagStr |-> <<>>,
                           message |-> "Failed to flush log buffer:"], <<"error">>)

\* Faulty variant: no try/catch, the exception of adapter.exists leaves flushBuffer.
flushBufferOn_NoCatch(throws, fle, ap, buf, fl, con) ==
    IF ~fle \/ ~ap \/ Len(buf) = 0 THEN [fl |-> fl, con |-> con, escapes |-> FALSE]
    ELSE IF throws THEN [fl |-> fl, con |-> con, escapes |-> TRUE]
    ELSE [fl |-> Append(fl, NewFlight(buf)), con |-> con, escapes |-> FALSE]

\* flushBuffer, adapter.exists throwing when `throws`: the flush chains and
\* the console after the call, and whether an exception escapes from it.
flushBufferOn(throws, fle, ap, buf, fl, con) ==
    IF ~fle \/ ~ap \/ Len(buf) = 0 THEN [fl |-> fl, con |-> con, escapes |-> FALSE]
    ELSE IF throws THEN [fl |-> fl, con |-> Append(con, SyncFailureReport), escapes |-> FALSE]
    ELSE [fl |-> Append(fl, NewFlight(buf)), con |-> con, escapes |-> FALSE]

\* flush()
flushOn(throws) ==
    LET r == flushBufferOn(throws, fileLoggingEnabled, app, logBuffer, flights, console)
    IN /\ flights' = r.fl
       /\ console' = r.con
       /\ thrown' = (thrown \/ r.escapes)
       /\ UNCHANGED <<config, enabled, tagFilters, fileLoggingEnabled, app, logFilePath,
                      logBuffer>>

\* disableFileLogging(): the flag is lowered after flushBuffer has returned.
disableFileLoggingOn(throws) ==
    LET r == IF fileLoggingEnabled /\ Len(logBuffer) > 0
             THEN flushBufferOn(throws, fileLoggingEnabled, app, logBuffer, flights, console)
             ELSE [fl |-> flights, con |-> console, escapes |-> FALSE]
    IN /\ flights' = r.fl
       /\ console' = r.con
       /\ thrown' = (thrown \/ r.escapes)
       /\ fileLoggingEnabled' = IF r.escapes THEN fileLoggingEnabled ELSE FALSE
       /\ UNCHANGED <<config, enabled, tagFilters, app, logFilePath, logBuffer>>

\* error(component, message, ...args): console, then writeToFile, whose push
\* may bring the buffer to its capacity and call flushBuffer.
errorOn(throws, component, message, args) ==
    IF shouldLog(component, "error", Undefined)
    THEN LET con == Append(console,
                       ConsoleEntry("error", formatMessage(component, message, Undefined), args))
             queues == fileLoggingEnabled /\ app
             pushed == IF queues
                       THEN Append(logBuffer,
                                formatForFile(component, "error", message, Undefined, args))
                       ELSE logBuffer
             r == IF queues /\ Len(pushed) >= maxBufferSize
                  THEN flushBufferOn(throws, fileLoggingEnabled, app, pushed, flights, con)
                  ELSE [fl |-> flights, con |-> con, escapes |-> FALSE]
         IN /\ console' = r.con
            /\ logBuffer' = pushed
            /\ flights' = r.fl
            /\ thrown' = (thrown \/ r.escapes)
            /\ UNCHANGED <<config, enabled, tagFilters, fileLoggingEnabled, app, logFilePath>>
    ELSE UNCHANGED loggerVars /\ thrown' = thrown

(***************************************************************************)
(* scripts/clean-debug-code.mjs: DebugCodeCleaner.processFile and its      *)
(* scanner removeDebugBlocks. A file is the sequence of its lines          *)
(* (content.split('\n'), joined again with '\n' for the result).           *)
(***************************************************************************)
\* The lines the model puts in a file: the two markers, one of them also
\* indented, and two statements.
SourceLines == {"// DEBUG_START", "    // DEBUG_START", "// DEBUG_END", "a();", "b();"}

\* String.prototype.trim on a line.
trim(line) ==
    CASE line = "    // DEBUG_START" -> "// DEBUG_START"
      [] OTHER -> line

\* content.includes('// DEBUG_START')
includesStart(lines) ==
    \E k \in 1..Len(lines) : lines[k] \in {"// DEBUG_START", "    // DEBUG_START"}

\* No run of the script.
CleanerIdle == [pc |-> "idle"]

\* processFile has read the file; dryRun is the --dry-run option.
CleanerRead(lines, dryRun) ==
    [pc |-> "read", lines |-> lines, dryRun |-> dryRun, file |-> lines, i |-> 0,
     newLines |-> <<>>, inDebugBlock |-> FALSE, debugBlockStart |-> -1,
     blocksFound |-> 0, linesRemoved |-> 0, warnings |-> <<>>, modified |-> FALSE]

\* processFile up to the call of removeDebugBlocks: a file without the
\* start marker is left alone; otherwise the scanner starts at line 0.
processFile(c) ==
    IF ~includesStart(c.lines)
    THEN [c EXCEPT !.pc = "done"]
    ELSE [c EXCEPT !.pc = "scan"]

\* The two warnings of the scanner, with the 1-based line number they name.
EndWithoutStart(lineNumber) == [warning |-> "DEBUG_END without DEBUG_START", at |-> lineNumber]
StartWithoutEnd(lineNumber) == [warning |-> "DEBUG_START without DEBUG_END", at |-> lineNumber]

\* One iteration of the loop of removeDebugBlocks, on lines[i] (0-based).
scanLine(c) ==
    LET line == c.lines[c.i + 1]
        trimmed == trim(line)
        next == [c EXCEPT !.i = c.i + 1]
    IN IF trimmed = "// DEBUG_START"
       THEN [next EXCEPT !.inDebugBlock = TRUE, !.debugBlockStart = c.i + 1,
                         !.blocksFound = c.blocksFound + 1]
       ELSE IF trimmed = "// DEBUG_END"
       THEN IF ~c.inDebugBlock
            THEN [next EXCEPT !.warnings = Append(c.warnings, EndWithoutStart(c.i + 1)),
                              !.newLines = Append(c.newLines, line)]
            ELSE [next EXCEPT !.inDebugBlock = FALSE]
       ELSE IF c.inDebugBlock
       THEN [next EXCEPT !.linesRemoved = c.linesRemoved + 1]
       ELSE [next EXCEPT !.newLines = Append(c.newLines, line)]

\* After the loop: the warning for a block left open, the result returned to
\* processFile, which writes it to the file unless no block was found or the
\* run is a dry run.
finishScan(c) ==
    LET warned == IF c.inDebugBlock
                  THEN Append(c.warnings, StartWithoutEnd(c.debugBlockStart))
                  ELSE c.warnings
    IN [c EXCEPT !.pc = "done", !.warnings = warned,
                 !.modified = (c.blocksFound # 0),
                 !.file = IF c.blocksFound # 0 /\ ~c.dryRun THEN c.newLines ELSE c.file]

(***************************************************************************)
(* Initial state: the singleton right after `new Logger()`.                *)
(***************************************************************************)
BuildEnvs == {"development", "production"}

NoCall == [op |-> "none", component |-> "", tags |-> Undefined]

LoggerInit ==
    /\ config = DEFAULT_CONFIG
    /\ enabled = TRUE
    /\ tagFilters = EmptyMap
    /\ fileLoggingEnabled = FALSE
    /\ app = FALSE
    /\ logFilePath = ""
    /\ logBuffer = <<>>
    /\ console = <<>>
    /\ flights = <<>>

Init ==
    /\ BUILD_ENV \in BuildEnvs
    /\ LoggerInit
    /\ now = 0
    /\ fileExists = FALSE
    /\ fileContent = <<>>
    /\ faults = 0
    /\ calls = 0
    /\ inits = 0
    /\ flushes = 0
    /\ last = NoCall
    /\ thrown = FALSE
    /\ handles = {}
    /\ cleaner = CleanerIdle
    /\ discarded = <<>>

(***************************************************************************)
(* Inputs of the calls.                                                    *)
(***************************************************************************)
InputComponents == {"ui", "api"}
Message == "msg"
NoArgs == <<>>
TagInputs == {Undefined, Arr(<<>>), Arr(<<"validation">>), Arr(<<"rendering">>),
              Arr(<<"validation", "rendering">>)}
FilterInputs == {Undefined, Arr(<<>>), Arr(<<"validation">>),
                 Arr(<<"validation", "rendering", "validation">>)}
PartialConfigs ==
    {[c \in {} |-> "warn"], [c \in {"ui"} |-> "debug"], [c \in {"api"} |-> "error"],
     [c \in {"ui", "api"} |-> IF c = "ui" THEN "info" ELSE "debug"]}

(***************************************************************************)
(* Spec: configuration calls and logging calls in any order, in either     *)
(* build, with the file sink left disabled.                                *)
(***************************************************************************)
\* A configuration call: not a logging call.
Configures ==
    /\ last' = NoCall
    /\ UNCHANGED <<BUILD_ENV, now, cleaner, discarded, handles, thrown, fileExists, fileContent, faults, calls, inits, flushes>>

\* A logging call, counted and remembered.
Logs(op, component, tags) ==
    /\ calls' = calls + 1
    /\ last' = [op |-> op, component |-> component, tags |-> tags]
    /\ UNCHANGED <<BUILD_ENV, now, cleaner, discarded, handles, thrown, fileExists, fileContent, faults, inits, flushes>>

CallSetEnabled == \E e \in BOOLEAN : setEnabled(e) /\ Configures

CallSetConfig == \E partial \in PartialConfigs : setConfig(partial) /\ Configures

CallSetComponentLevel ==
    \E c \in InputComponents, l \in LogLevel, t \in FilterInputs :
        setComponentLevel(c, l, t) /\ Configures

CallClearTagFilters == \E c \in InputComponents : clearTagFilters(c) /\ Configures

CallClearAllTagFilters == clearAllTagFilters /\ Configures

CallInitFileLogging ==
    /\ ~fileLoggingEnabled
    /\ initFileLogging("debug-log.txt")
    /\ inits' = inits + 1
    /\ UNCHANGED <<BUILD_ENV, now, cleaner, discarded, handles, thrown, fileExists, fileContent, faults, calls, flushes, last>>

CallDebug ==
    /\ calls < MaxCalls
    /\ \E c \in InputComponents, t \in TagInputs :
            debug(c, Message, t, NoArgs) /\ Logs("debug", c, t)

CallInfo ==
    /\ calls < MaxCalls
    /\ \E c \in InputComponents : info(c, Message, NoArgs) /\ Logs("info", c, Undefined)

CallWarn ==
    /\ calls < MaxCalls
    /\ \E c \in InputComponents : warn(c, Message, NoArgs) /\ Logs("warn", c, Undefined)

CallError ==
    /\ calls < MaxCalls
    /\ \E c \in InputComponents : error(c, Message, NoArgs) /\ Logs("error", c, Undefined)

Next ==
    \/ CallSetEnabled
    \/ CallSetConfig
    \/ CallSetComponentLevel
    \/ CallClearTagFilters
    \/ CallClearAllTagFilters
    \/ CallDebug
    \/ CallInfo
    \/ CallWarn
    \/ CallError

Spec == Init /\ [][Next]_vars

(***************************************************************************)
(* SpecConfig: configuration calls only, in either build.                  *)
(***************************************************************************)
ConfigNext ==
    \/ CallSetEnabled
    \/ CallSetConfig
    \/ CallSetComponentLevel
    \/ CallClearTagFilters
    \/ CallClearAllTagFilters

SpecConfig == Init /\ [][ConfigNext]_vars

(***************************************************************************)
(* SpecLevels: the configuration calls with every argument the signature   *)
(* setConfig(config: Partial<LoggerConfig>) admits: an optional property   *)
(* may be present with the value undefined.                                *)
(***************************************************************************)
PartialConfigsWithUndefined ==
    PartialConfigs \cup {[c \in {"ui"} |-> NoValue],
                         [c \in {"ui", "api"} |-> IF c = "ui" THEN "info" ELSE NoValue]}

LevelsSetConfig ==
    \E partial \in PartialConfigsWithUndefined : setConfig(partial) /\ Configures

LevelsNext ==
    \/ CallSetEnabled
    \/ LevelsSetConfig
    \/ CallSetComponentLevel
    \/ CallClearTagFilters
    \/ CallClearAllTagFilters

SpecLevels == Init /\ [][LevelsNext]_vars

(***************************************************************************)
(* SpecUnknown: logging and configuration calls whose component is a       *)
(* string from outside the enumeration (cast with `as any`, as when the    *)
(* names are the keys of a settings object), next to calls on a component  *)
(* of the enumeration.                                                     *)
(***************************************************************************)
UnknownComponents == {"ui", UnknownComponent}

UnknownSetComponentLevel ==
    \E c \in UnknownComponents, l \in LogLevel, t \in {Undefined, Arr(<<"validation">>)} :
        setComponentLevel(c, l, t) /\ Configures

UnknownLogCall(level, c, t) ==
    /\ calls < MaxCalls
    /\ CASE level = "debug" -> debug(c, Message, t, NoArgs)
         [] level = "info" -> info(c, Message, NoArgs)
         [] level = "warn" -> warn(c, Message, NoArgs)
         [] level = "error" -> error(c, Message, NoArgs)
    /\ Logs(level, c, t)

UnknownLog ==
    \E level \in LogLevel, c \in UnknownComponents :
        \E t \in (IF level = "debug" THEN {Undefined, Arr(<<"validation">>)} ELSE {Undefined}) :
            UnknownLogCall(level, c, t)

UnknownNext ==
    \/ CallSetEnabled
    \/ UnknownSetComponentLevel
    \/ CallInitFileLogging
    \/ UnknownLog

SpecUnknown == Init /\ [][UnknownNext]_vars

(***************************************************************************)
(* SpecSink: logging calls against both sinks: the global flag, the level  *)
(* and tag filter of one component, and file logging switched on at any    *)
(* point.                                                                  *)
(***************************************************************************)
SinkSetComponentLevel ==
    \E l \in LogLevel, t \in {Undefined, Arr(<<"validation">>)} :
        setComponentLevel("ui", l, t) /\ Configures

SinkNext ==
    \/ CallSetEnabled
    \/ SinkSetComponentLevel
    \/ CallInitFileLogging
    \/ CallDebug
    \/ CallInfo
    \/ CallWarn
    \/ CallError

SpecSink == Init /\ [][SinkNext]_vars

(***************************************************************************)
(* SpecBuild: the calls of SpecSink in the three builds: development,      *)
(* production, and a bundle in which BUILD_ENV was never defined.          *)
(***************************************************************************)
BuildModes == BuildEnvs \cup {NotDefined}

BuildInit ==
    /\ BUILD_ENV \in BuildModes
    /\ LoggerInit
    /\ now = 0
    /\ fileExists = FALSE
    /\ fileContent = <<>>
    /\ faults = 0
    /\ calls = 0
    /\ inits = 0
    /\ flushes = 0
    /\ last = NoCall
    /\ thrown = FALSE
    /\ handles = {}
    /\ cleaner = CleanerIdle
    /\ discarded = <<>>

SpecBuild == BuildInit /\ [][SinkNext]_vars

(***************************************************************************)
(* SpecHandle: component loggers are created at any point and used while   *)
(* the global flag, the level and the tag filter of their component change *)
(* and file logging is switched on.                                        *)
(***************************************************************************)
HandleArgs == {NoArgs, <<"data">>}

HandleCreate ==
    /\ Cardinality(handles) < MaxHandles
    /\ \E c \in InputComponents : handles' = handles \cup {createComponentLogger(c)}
    /\ handles' # handles
    /\ UNCHANGED loggerVars
    /\ UNCHANGED <<BUILD_ENV, now, cleaner, discarded, thrown, fileExists, fileContent, faults, calls, inits,
                   flushes, last>>

HandleFrame(op, h) ==
    /\ calls' = calls + 1
    /\ last' = [op |-> op, component |-> h.component, tags |-> Undefined]
    /\ UNCHANGED <<BUILD_ENV, now, cleaner, discarded, thrown, handles, fileExists, fileContent, faults, inits,
                   flushes>>

HandleLogCall(h, level, args) ==
    /\ calls < MaxCalls
    /\ handleEmit(h, level, Message, args)
    /\ HandleFrame(level, h)

HandleLog ==
    \E h \in handles, level \in {"info", "warn", "error"}, args \in HandleArgs :
        HandleLogCall(h, level, args)

\* The argument lists of handle.debug: none, data, tags, data and tags.
HandleDebugArgs == {NoArgs, <<"data">>, <<TagsArrayArg>>, <<"data", TagsArrayArg>>}

HandleDebugCall(h, args) ==
    /\ calls < MaxCalls
    /\ handleDebug(h, Message, args)
    /\ HandleFrame("debug", h)

HandleDebug == \E h \in handles, args \in HandleDebugArgs : HandleDebugCall(h, args)

HandleNext ==
    \/ CallSetEnabled
    \/ SinkSetComponentLevel
    \/ CallInitFileLogging
    \/ HandleCreate
    \/ HandleLog
    \/ HandleDebug

SpecHandle == Init /\ [][HandleNext]_vars

(***************************************************************************)
(* SpecTags: debug calls through a handle with every shape of argument     *)
(* list, under levels and tag filters set in between, with the file sink   *)
(* on or off.                                                              *)
(***************************************************************************)
\* The argument lists of handle.debug: none, data, tags, data and tags, an
\* empty array, data and an array that is not all strings, tags before data.
TagsDebugArgs ==
    {NoArgs, <<"data">>, <<TagsArrayArg>>, <<"data", TagsArrayArg>>, <<EmptyArrayArg>>,
     <<"data", MixedArrayArg>>, <<TagsArrayArg, "data">>}

TagsDebug == \E h \in handles, args \in TagsDebugArgs : HandleDebugCall(h, args)

TagsNext ==
    \/ SinkSetComponentLevel
    \/ CallInitFileLogging
    \/ HandleCreate
    \/ TagsDebug

SpecTags == Init /\ [][TagsNext]_vars

(***************************************************************************)
(* SpecClear: tag filters are set on two components and cleared, one       *)
(* component at a time or all at once, with debug calls in between, in     *)
(* either build.                                                           *)
(***************************************************************************)
ClearFrame(op, component) ==
    /\ last' = [op |-> op, component |-> component, tags |-> Undefined]
    /\ UNCHANGED <<BUILD_ENV, now, cleaner, discarded, handles, thrown, fileExists, fileContent, faults, calls,
                   inits, flushes>>

ClearClearTagFilters ==
    \E c \in InputComponents : clearTagFilters(c) /\ ClearFrame("clearTagFilters", c)

ClearClearAllTagFilters == clearAllTagFilters /\ ClearFrame("clearAllTagFilters", "")

ClearNext ==
    \/ CallSetEnabled
    \/ CallSetComponentLevel
    \/ ClearClearTagFilters
    \/ ClearClearAllTagFilters
    \/ CallDebug

SpecClear == Init /\ [][ClearNext]_vars

(***************************************************************************)
(* SpecSetLevel: setComponentLevel on two components, with the global flag *)
(* switched, file logging enabled and error records in the buffer.         *)
(***************************************************************************)
SetLevelSetComponentLevel ==
    \E c \in InputComponents, l \in LogLevel, t \in FilterInputs :
        setComponentLevel(c, l, t) /\ ClearFrame("setComponentLevel", c)

SetLevelNext ==
    \/ CallSetEnabled
    \/ SetLevelSetComponentLevel
    \/ CallInitFileLogging
    \/ CallError

SpecSetLevel == Init /\ [][SetLevelNext]_vars

(***************************************************************************)
(* SpecClean: one run of the cleanup script on one file, for every file of *)
(* at most MaxLines lines, with and without --dry-run.                     *)
(***************************************************************************)
RECURSIVE Files(_)
Files(n) ==
    IF n = 0 THEN {<<>>}
    ELSE Files(n - 1) \cup {Append(f, l) : f \in {g \in Files(n - 1) : Len(g) = n - 1},
                                           l \in SourceLines}

CleanInit ==
    /\ BUILD_ENV = "development"
    /\ LoggerInit
    /\ now = 0
    /\ fileExists = FALSE
    /\ fileContent = <<>>
    /\ faults = 0
    /\ calls = 0
    /\ inits = 0
    /\ flushes = 0
    /\ last = NoCall
    /\ thrown = FALSE
    /\ handles = {}
    /\ discarded = <<>>
    /\ \E lines \in Files(MaxLines) \ {<<>>}, dryRun \in BOOLEAN :
          cleaner = CleanerRead(lines, dryRun)

CleanFrame ==
    /\ UNCHANGED loggerVars
    /\ UNCHANGED <<BUILD_ENV, now, discarded, handles, thrown, fileExists, fileContent, faults,
                   calls, inits, flushes, last>>

CleanProcessFile ==
    /\ cleaner.pc = "read"
    /\ cleaner' = processFile(cleaner)
    /\ CleanFrame

CleanScanLine ==
    /\ cleaner.pc = "scan" /\ cleaner.i < Len(cleaner.lines)
    /\ cleaner' = scanLine(cleaner)
    /\ CleanFrame

CleanFinishScan ==
    /\ cleaner.pc = "scan" /\ cleaner.i = Len(cleaner.lines)
    /\ cleaner' = finishScan(cleaner)
    /\ CleanFrame

CleanNext ==
    \/ CleanProcessFile
    \/ CleanScanLine
    \/ CleanFinishScan

SpecClean == CleanInit /\ [][CleanNext]_vars

(***************************************************************************)
(* SpecFile: the buffered file sink against the vault. One component logs  *)
(* numbered error records; file logging is switched on and off, the buffer *)
(* is flushed and cleared, and every pending storage operation completes   *)
(* or rejects in a step of its own.                                        *)
(***************************************************************************)
\* What the vault held before the plugin ran, as one chunk of n bytes.
OldContent(n) ==
    [kind |-> "old", timestamp |-> 0, level |-> "",
     text |-> [component |-> "", tagStr |-> <<>>, message |-> ""],
     args |-> <<>>, length |-> n]

InitFile ==
    /\ BUILD_ENV = "development"
    /\ LoggerInit
    /\ now = 0
    /\ \/ fileExists = FALSE /\ fileContent = <<>>
       \/ fileExists = TRUE /\ fileContent \in {<<OldContent(maxFileSize)>>,
                                                <<OldContent(maxFileSize + 1)>>}
    /\ faults = 0
    /\ calls = 0
    /\ inits = 0
    /\ flushes = 0
    /\ last = NoCall
    /\ thrown = FALSE
    /\ handles = {}
    /\ cleaner = CleanerIdle
    /\ discarded = <<>>

\* The message of the k-th logging call of SpecFile.
Messages == <<"m1", "m2", "m3", "m4", "m5", "m6", "m7", "m8", "m9", "m10", "m11",
              "m12", "m13", "m14", "m15", "m16">>

\* Flush chains started by the step are counted.
CountsFlushes ==
    /\ Len(flights') <= MaxFlights
    /\ flushes' = flushes + (Len(flights') - Len(flights))
    /\ flushes' <= MaxFlushes

FileFrame == UNCHANGED <<BUILD_ENV, now, cleaner, discarded, handles, thrown, faults, calls, inits, last>>

FileInitFileLogging ==
    /\ ~fileLoggingEnabled
    /\ inits < MaxInits
    /\ initFileLogging("debug-log.txt")
    /\ CountsFlushes
    /\ inits' = inits + 1
    /\ UNCHANGED <<BUILD_ENV, now, cleaner, discarded, handles, thrown, faults, calls, last, fileExists, fileContent>>

FileDisableFileLogging ==
    /\ fileLoggingEnabled
    /\ disableFileLogging
    /\ CountsFlushes
    /\ UNCHANGED <<fileExists, fileContent>>
    /\ FileFrame

FileFlush ==
    /\ flush
    /\ CountsFlushes
    /\ UNCHANGED <<fileExists, fileContent>>
    /\ FileFrame

FileClearBuffer ==
    /\ Len(logBuffer) > 0
    /\ clearBuffer
    /\ UNCHANGED <<fileExists, fileContent, flushes>>
    /\ FileFrame

FileError ==
    /\ calls < MaxFileCalls
    /\ error("api", Messages[calls + 1], NoArgs)
    /\ CountsFlushes
    /\ calls' = calls + 1
    /\ last' = [op |-> "error", component |-> "api", tags |-> Undefined]
    /\ UNCHANGED <<BUILD_ENV, now, cleaner, discarded, handles, thrown, faults, inits, fileExists, fileContent>>

StorageFrame == UNCHANGED <<BUILD_ENV, now, cleaner, discarded, handles, thrown, faults, calls, inits, flushes, last>>

StepExistsResolves == \E i \in 1..Len(flights) : ExistsResolves(i) /\ StorageFrame

StepStatResolves == \E i \in 1..Len(flights) : StatResolves(i) /\ StorageFrame

StepReadResolves == \E i \in 1..Len(flights) : ReadResolves(i) /\ StorageFrame

StepWriteResolves == \E i \in 1..Len(flights) : WriteResolves(i) /\ StorageFrame

StepStatResolvesNull ==
    /\ faults < MaxFaults
    /\ \E i \in 1..Len(flights) : StatResolvesNull(i)
    /\ faults' = faults + 1
    /\ UNCHANGED <<BUILD_ENV, now, cleaner, discarded, handles, thrown, calls, inits, flushes, last>>

StepRejects ==
    /\ faults < MaxFaults
    /\ \E i \in 1..Len(flights) : Rejects(i)
    /\ faults' = faults + 1
    /\ UNCHANGED <<BUILD_ENV, now, cleaner, discarded, handles, thrown, calls, inits, flushes, last>>

FileNext ==
    \/ FileInitFileLogging
    \/ FileDisableFileLogging
    \/ FileFlush
    \/ FileClearBuffer
    \/ FileError
    \/ StepExistsResolves
    \/ StepStatResolves
    \/ StepReadResolves
    \/ StepWriteResolves
    \/ StepStatResolvesNull
    \/ StepRejects

SpecFile == InitFile /\ [][FileNext]_vars

(***************************************************************************)
(* SpecRetry: the retry scenario. File logging is switched on, error        *)
(* records are queued, and the buffer is flushed by flush() calls issued    *)
(* one after the other, each once the previous flush chain has ended; the   *)
(* write of a flush may reject.                                             *)
(***************************************************************************)
RetryInitFileLogging == calls = 0 /\ FileInitFileLogging

RetryError ==
    /\ fileLoggingEnabled /\ flushes = 0
    /\ calls < MaxRetryCalls
    /\ error("api", Messages[calls + 1], NoArgs)
    /\ CountsFlushes
    /\ calls' = calls + 1
    /\ last' = [op |-> "error", component |-> "api", tags |-> Undefined]
    /\ UNCHANGED <<BUILD_ENV, now, cleaner, discarded, handles, thrown, faults, inits, fileExists, fileContent>>

RetryFlush ==
    /\ fileLoggingEnabled /\ Len(flights) = 0 /\ Len(logBuffer) > 0
    /\ FileFlush

RetryWriteRejects ==
    /\ faults < MaxFaults
    /\ \E i \in 1..Len(flights) : flights[i].stage = "write" /\ Rejects(i)
    /\ faults' = faults + 1
    /\ UNCHANGED <<BUILD_ENV, now, cleaner, discarded, handles, thrown, calls, inits, flushes, last>>

RetryNext ==
    \/ RetryInitFileLogging
    \/ RetryError
    \/ RetryFlush
    \/ StepExistsResolves
    \/ StepStatResolves
    \/ StepReadResolves
    \/ StepWriteResolves
    \/ RetryWriteRejects

SpecRetry == InitFile /\ [][RetryNext]_vars

(***************************************************************************)
(* SpecCapacity: the buffer filling up. File logging is switched on, then   *)
(* numbered info records are logged on one component, whose level is set to *)
(* info at some point; the storage operations of the flushes complete in    *)
(* between or afterwards.                                                   *)
(***************************************************************************)
CapacitySetComponentLevel ==
    /\ config["api"] # "info"
    /\ setComponentLevel("api", "info", Undefined)
    /\ UNCHANGED <<BUILD_ENV, now, cleaner, discarded, handles, thrown, fileExists, fileContent, faults, calls, inits,
                   flushes, last>>

CapacityInfo ==
    /\ fileLoggingEnabled
    /\ calls < MaxCapacityCalls
    /\ info("api", Messages[calls + 1], NoArgs)
    /\ CountsFlushes
    /\ calls' = calls + 1
    /\ last' = [op |-> "info", component |-> "api", tags |-> Undefined]
    /\ UNCHANGED <<BUILD_ENV, now, cleaner, discarded, handles, thrown, faults, inits, fileExists, fileContent>>

CapacityNext ==
    \/ FileInitFileLogging
    \/ CapacitySetComponentLevel
    \/ CapacityInfo
    \/ StepExistsResolves
    \/ StepStatResolves
    \/ StepReadResolves
    \/ StepWriteResolves

SpecCapacity == InitFile /\ [][CapacityNext]_vars

(***************************************************************************)
(* SpecLifecycle: the life cycle of the file sink with a vault whose         *)
(* operations all succeed. Every call is recorded in `last`; every pending   *)
(* storage operation eventually completes (the adapter's promises settle).   *)
(***************************************************************************)
Called(op) == last' = [op |-> op, component |-> "", tags |-> Undefined]

LifecycleInitFileLogging ==
    /\ ~fileLoggingEnabled
    /\ inits < MaxInits
    /\ initFileLogging("debug-log.txt")
    /\ CountsFlushes
    /\ inits' = inits + 1
    /\ Called("initFileLogging")
    /\ UNCHANGED <<BUILD_ENV, now, cleaner, discarded, handles, thrown, faults, calls, fileExists, fileContent>>

LifecycleDisableFileLogging ==
    /\ fileLoggingEnabled
    /\ disableFileLogging
    /\ CountsFlushes
    /\ Called("disableFileLogging")
    /\ UNCHANGED <<BUILD_ENV, now, cleaner, discarded, handles, thrown, faults, calls, inits, fileExists, fileContent>>

LifecycleFlush ==
    /\ flush
    /\ CountsFlushes
    /\ Called("flush")
    /\ UNCHANGED <<BUILD_ENV, now, cleaner, discarded, handles, thrown, faults, calls, inits, fileExists, fileContent>>

LifecycleError ==
    /\ calls < MaxFileCalls
    /\ error("api", Messages[calls + 1], NoArgs)
    /\ CountsFlushes
    /\ calls' = calls + 1
    /\ last' = [op |-> "error", component |-> "api", tags |-> Undefined]
    /\ UNCHANGED <<BUILD_ENV, now, cleaner, discarded, handles, thrown, faults, inits, fileExists, fileContent>>

LifecycleNext ==
    \/ LifecycleInitFileLogging
    \/ LifecycleDisableFileLogging
    \/ LifecycleFlush
    \/ LifecycleError
    \/ StepExistsResolves
    \/ StepStatResolves
    \/ StepReadResolves
    \/ StepWriteResolves

\* The promises of the adapter settle: a pending storage operation completes.
StorageCompletes ==
    /\ WF_vars(StepExistsResolves)
    /\ WF_vars(StepStatResolves)
    /\ WF_vars(StepReadResolves)
    /\ WF_vars(StepWriteResolves)

SpecLifecycle == InitFile /\ [][LifecycleNext]_vars /\ StorageCompletes

(***************************************************************************)
(* SpecThrow: the file sink against a vault that fails: adapter.exists may  *)
(* throw when it is called, and pending operations may reject. Numbered     *)
(* error records are logged until the buffer reaches its capacity; the      *)
(* calls are made one after another, each once the chain before it ended.   *)
(***************************************************************************)
\* A call made while the vault throws counts as a storage fault.
ThrowFrame(throws) ==
    /\ throws => faults < MaxFaults
    /\ faults' = IF throws THEN faults + 1 ELSE faults
    /\ CountsFlushes
    /\ UNCHANGED <<BUILD_ENV, now, cleaner, discarded, handles, inits, fileExists, fileContent>>

ThrowFlush ==
    \E throws \in BOOLEAN :
        /\ Len(flights) = 0
        /\ flushOn(throws)
        /\ ThrowFrame(throws)
        /\ Called("flush")
        /\ UNCHANGED calls

ThrowDisableFileLogging ==
    \E throws \in BOOLEAN :
        /\ fileLoggingEnabled /\ Len(flights) = 0
        /\ disableFileLoggingOn(throws)
        /\ ThrowFrame(throws)
        /\ Called("disableFileLogging")
        /\ UNCHANGED calls

ThrowError ==
    \E throws \in BOOLEAN :
        /\ fileLoggingEnabled /\ Len(flights) = 0 /\ calls < MaxCapacityCalls
        /\ errorOn(throws, "api", Messages[calls + 1], NoArgs)
        /\ ThrowFrame(throws)
        /\ calls' = calls + 1
        /\ last' = [op |-> "error", component |-> "api", tags |-> Undefined]

ThrowNext ==
    \/ RetryInitFileLogging
    \/ ThrowFlush
    \/ ThrowDisableFileLogging
    \/ ThrowError
    \/ StepExistsResolves
    \/ StepStatResolves
    \/ StepReadResolves
    \/ StepWriteResolves
    \/ StepRejects

\* The vault holds no log file yet.
ThrowInit == InitFile /\ ~fileExists

SpecThrow == ThrowInit /\ [][ThrowNext]_vars

(***************************************************************************)
(* SpecLeftover: the file sink switched on, off and on again, with flushes *)
(* called by hand in either state and a vault whose operations may reject, *)
(* so that records are left in the buffer of a disabled sink.              *)
(***************************************************************************)
LeftoverInitFileLogging ==
    /\ ~fileLoggingEnabled /\ Len(flights) = 0
    /\ inits < MaxLeftoverInits
    /\ initFileLogging("debug-log.txt")
    /\ CountsFlushes
    /\ inits' = inits + 1
    /\ Called("initFileLogging")
    /\ UNCHANGED <<BUILD_ENV, now, cleaner, discarded, handles, thrown, faults, calls, fileExists, fileContent>>

LeftoverNext ==
    \/ LeftoverInitFileLogging
    \/ LifecycleDisableFileLogging
    \/ LifecycleFlush
    \/ LifecycleError
    \/ StepExistsResolves
    \/ StepStatResolves
    \/ StepReadResolves
    \/ StepWriteResolves
    \/ StepRejects

SpecLeftover == ThrowInit /\ [][LeftoverNext]_vars

(***************************************************************************)
(* SpecArgs: records with supplementary arguments, some of which cannot be  *)
(* serialized, logged at the four levels on one component whose level is    *)
(* lowered to debug at some point; the sink is enabled at some point and    *)
(* flushed.                                                                 *)
(***************************************************************************)
ArgInputs == {<<>>, <<"data">>, <<CircularArg>>, <<"data", CircularArg>>, <<ThrowingArg>>}

ArgsSetComponentLevel ==
    /\ config["api"] # "debug"
    /\ setComponentLevel("api", "debug", Undefined)
    /\ UNCHANGED <<BUILD_ENV, now, cleaner, discarded, handles, thrown, fileExists, fileContent, faults, calls, inits,
                   flushes, last>>

ArgsLogCall(level, args) ==
    /\ calls < MaxArgsCalls
    /\ CASE level = "debug" -> debug("api", Messages[calls + 1], Undefined, args)
         [] level = "info" -> info("api", Messages[calls + 1], args)
         [] level = "warn" -> warn("api", Messages[calls + 1], args)
         [] level = "error" -> error("api", Messages[calls + 1], args)
    /\ thrown' = (thrown \/ emitThrows(level, "api", Undefined, args))
    /\ CountsFlushes
    /\ calls' = calls + 1
    /\ last' = [op |-> level, component |-> "api", tags |-> Undefined]
    /\ UNCHANGED <<BUILD_ENV, now, cleaner, discarded, handles, faults, inits, fileExists, fileContent>>

ArgsLog == \E level \in LogLevel, args \in ArgInputs : ArgsLogCall(level, args)

ArgsNext ==
    \/ FileInitFileLogging
    \/ ArgsSetComponentLevel
    \/ ArgsLog
    \/ FileFlush
    \/ StepExistsResolves
    \/ StepStatResolves
    \/ StepReadResolves
    \/ StepWriteResolves

SpecArgs == ThrowInit /\ [][ArgsNext]_vars

(***************************************************************************)
(* SpecOrder: numbered error records logged on one component while the     *)
(* sink is flushed by hand, the storage operations of the flush chains     *)
(* completing in any order.                                                *)
(***************************************************************************)
OrderError ==
    /\ calls < MaxOrderCalls
    /\ error("api", Messages[calls + 1], NoArgs)
    /\ CountsFlushes
    /\ calls' = calls + 1
    /\ last' = [op |-> "error", component |-> "api", tags |-> Undefined]
    /\ UNCHANGED <<BUILD_ENV, now, cleaner, discarded, handles, thrown, faults, inits, fileExists, fileContent>>

OrderNext ==
    \/ FileInitFileLogging
    \/ OrderError
    \/ FileFlush
    \/ StepExistsResolves
    \/ StepStatResolves
    \/ StepReadResolves
    \/ StepWriteResolves

SpecOrder == InitFile /\ [][OrderNext]_vars

(***************************************************************************)
(* SpecNoStat: the file sink against a vault whose adapter.stat may        *)
(* resolve with no value; no storage operation rejects.                    *)
(***************************************************************************)
NoStatNext ==
    \/ FileInitFileLogging
    \/ FileError
    \/ FileFlush
    \/ StepExistsResolves
    \/ StepStatResolves
    \/ StepReadResolves
    \/ StepWriteResolves
    \/ StepStatResolvesNull

SpecNoStat == InitFile /\ [][NoStatNext]_vars

(***************************************************************************)
(* SpecDiscard: numbered records logged with file logging on, the buffer   *)
(* emptied by clearBuffer, flushes called by hand before and after.        *)
(***************************************************************************)
DiscardClearBuffer ==
    /\ Len(discarded) < MaxClears
    /\ clearBuffer
    /\ discarded' = Append(discarded, logBuffer)
    /\ Called("clearBuffer")
    /\ UNCHANGED <<BUILD_ENV, now, cleaner, handles, thrown, faults, calls, inits, flushes,
                   fileExists, fileContent>>

DiscardNext ==
    \/ FileInitFileLogging
    \/ OrderError
    \/ FileFlush
    \/ DiscardClearBuffer
    \/ StepExistsResolves
    \/ StepStatResolves
    \/ StepReadResolves
    \/ StepWriteResolves

SpecDiscard == ThrowInit /\ [][DiscardNext]_vars

(***************************************************************************)
(* SpecScenario: the four logging calls debug, info, warn, error made in   *)
(* that order on one component of a freshly constructed logger; file       *)
(* logging may be switched on in between.                                  *)
(***************************************************************************)
ScenarioDebug ==
    /\ calls = 0
    /\ \E c \in ComponentName, t \in TagInputs :
            debug(c, Message, t, NoArgs) /\ Logs("debug", c, t)

ScenarioInfo ==
    /\ calls = 1
    /\ info(last.component, Message, NoArgs)
    /\ Logs("info", last.component, Undefined)

ScenarioWarn ==
    /\ calls = 2
    /\ warn(last.component, Message, NoArgs)
    /\ Logs("warn", last.component, Undefined)

ScenarioError ==
    /\ calls = 3
    /\ error(last.component, Message, NoArgs)
    /\ Logs("error", last.component, Undefined)

ScenarioNext ==
    \/ ScenarioDebug
    \/ ScenarioInfo
    \/ ScenarioWarn
    \/ ScenarioError
    \/ CallInitFileLogging

SpecScenario == Init /\ [][ScenarioNext]_vars

(***************************************************************************)
(* Properties.                                                             *)
(***************************************************************************)
\* The order of severity: debug < info < warn < error.
Rank(level) ==
    CASE level = "debug" -> 0
      [] level = "info" -> 1
      [] level = "warn" -> 2
      [] level = "error" -> 3

\* The step is the logging call `level` on component c with tags t.
LogCall(level, c, t) ==
    /\ calls' = calls + 1
    /\ last' = [op |-> level, component |-> c, tags |-> IF level = "debug" THEN t ELSE Undefined]
    /\ CASE level = "debug" -> debug(c, Message, t, NoArgs)
         [] level = "info" -> info(c, Message, NoArgs)
         [] level = "warn" -> warn(c, Message, NoArgs)
         [] level = "error" -> error(c, Message, NoArgs)

\* The step delivers exactly the record of that call to the console sink.
Accepted(level, c, t) ==
    console' = Append(console, ConsoleEntry(level, formatMessage(c, Message, t), NoArgs))

\* The step delivers nothing to the console sink and nothing to the file buffer.
Rejected == UNCHANGED <<console, logBuffer>>

\* The record of the last logging call is the last entry of the console sink.
LastDelivered ==
    /\ Len(console) > 0
    /\ console[Len(console)] =
          ConsoleEntry(last.op, formatMessage(last.component, Message, last.tags), NoArgs)

TagsEmpty(t) == ~t.present \/ Len(t.list) = 0

\* Whether a record would be emitted in the current state under tag filters f.
EmitsUnder(f, c, level, t) ==
    /\ level = "debug" => isDevelopment
    /\ shouldLogIn(enabled, config, f, c, level, IF level = "debug" THEN t ELSE Undefined)

\* C1: while the global enable flag is off, no call to debug, info, warn or
\* error, for any component, configured level and tags, delivers a record to
\* the console sink or appends one to the file buffer.
C1_GlobalDisable ==
    [][\A c \in InputComponents, level \in LogLevel :
         \A t \in (IF level = "debug" THEN TagInputs ELSE {Undefined}) :
            (~enabled /\ LogCall(level, c, t)) => Rejected]_vars

\* An error call on a component at debug level, file logging on, flag off:
\* the console sink is still empty and the buffer holds the start banner only.
C1_Witness ==
    /\ ~enabled
    /\ last.op = "error" /\ config[last.component] = "debug"
    /\ fileLoggingEnabled /\ app
    /\ console = <<>> /\ logBuffer = <<startBanner>>

\* C2: with logging globally enabled, a record whose level ranks below the
\* level configured for its component is rejected, and an info, warn or error
\* record whose level ranks at or above it is accepted.
C2_LevelGate ==
    [][\A c \in InputComponents, level \in LogLevel :
         \A t \in (IF level = "debug" THEN TagInputs ELSE {Undefined}) :
            (enabled /\ LogCall(level, c, t)) =>
                /\ Rank(level) < Rank(config[c]) => Rejected
                /\ (level # "debug" /\ Rank(level) >= Rank(config[c])) =>
                       Accepted(level, c, Undefined)]_vars

C2_Witness ==
    /\ enabled
    /\ last.op = "warn" /\ config[last.component] = "warn" /\ LastDelivered

\* C3: level monotonicity: on a component without a tag filter, if a record
\* at level L1 is emitted then so is a record at every level L2 > L1.
C3_LevelMonotone ==
    \A c \in ComponentName :
        ~MapHas(tagFilters, c) =>
            \A l1, l2 \in LogLevel :
                \A t1 \in (IF l1 = "debug" THEN TagInputs ELSE {Undefined}) :
                    (Rank(l1) < Rank(l2) /\ EmitsUnder(tagFilters, c, l1, t1))
                        => EmitsUnder(tagFilters, c, l2, Undefined)

C3_Witness ==
    /\ last.op = "info" /\ ~MapHas(tagFilters, last.component)
    /\ config[last.component] = "info" /\ LastDelivered

\* C4 as stated: at debug level with a non-empty filter F, a debug record with
\* a non-empty tag list T is emitted iff some tag of T is in F.
C4_TagOrAsStated ==
    [][\A c \in InputComponents, t \in TagInputs :
         (/\ config[c] = "debug" /\ MapHas(tagFilters, c)
          /\ ~TagsEmpty(t) /\ LogCall("debug", c, t)) =>
            (Accepted("debug", c, t) <=>
                \E i \in 1..Len(t.list) : SetHas(tagFilters[c], t.list[i]))]_vars

\* C4 (amended): the same, provided logging is globally enabled and the build
\* is a development build.
C4_TagOr ==
    [][\A c \in InputComponents, t \in TagInputs :
         (/\ enabled /\ isDevelopment
          /\ config[c] = "debug" /\ MapHas(tagFilters, c)
          /\ ~TagsEmpty(t) /\ LogCall("debug", c, t)) =>
            (Accepted("debug", c, t) <=>
                \E i \in 1..Len(t.list) : SetHas(tagFilters[c], t.list[i]))]_vars

\* One matching tag out of two is enough.
C4_Witness ==
    /\ enabled /\ isDevelopment
    /\ last.op = "debug" /\ last.tags = Arr(<<"validation", "rendering">>)
    /\ config[last.component] = "debug"
    /\ MapHas(tagFilters, last.component)
    /\ tagFilters[last.component] = <<"validation">>
    /\ LastDelivered

\* C5: with an active tag filter on a component, a debug record of it that
\* carries no tags (absent or empty list) is rejected, whatever the level.
C5_UntaggedRejected ==
    [][\A c \in InputComponents, t \in TagInputs :
         (MapHas(tagFilters, c) /\ TagsEmpty(t) /\ LogCall("debug", c, t))
            => Rejected]_vars

C5_Witness ==
    /\ enabled /\ isDevelopment
    /\ last.op = "debug" /\ last.tags = Arr(<<>>)
    /\ config[last.component] = "debug"
    /\ MapHas(tagFilters, last.component)
    /\ console = <<>>

\* C6: in a development build with logging enabled, a debug record of a
\* component without a tag filter is emitted iff the component's level is
\* debug, whatever tags it carries.
C6_NoFilterDebug ==
    [][\A c \in InputComponents, t \in TagInputs :
         (/\ enabled /\ isDevelopment
          /\ ~MapHas(tagFilters, c) /\ LogCall("debug", c, t)) =>
            /\ Accepted("debug", c, t) <=> config[c] = "debug"
            /\ config[c] # "debug" => Rejected]_vars

C6_Witness ==
    /\ enabled /\ isDevelopment
    /\ last.op = "debug" /\ last.tags = Arr(<<"rendering">>)
    /\ ~MapHas(tagFilters, last.component)
    /\ config[last.component] = "debug"
    /\ LastDelivered

\* C7: whether an info, warn or error record of a component is emitted is the
\* same with the component's tag filter installed as with it removed.
C7_FilterDebugOnly ==
    \A c \in ComponentName, level \in LogLevel \ {"debug"} :
        EmitsUnder(tagFilters, c, level, Undefined)
            = EmitsUnder(MapDelete(tagFilters, c), c, level, Undefined)

C7_Witness ==
    /\ last.op = "info" /\ MapHas(tagFilters, last.component)
    /\ config[last.component] = "debug"
    /\ LastDelivered

\* C8: on a freshly constructed logger, debug, info, warn, error called in
\* that order on a component deliver exactly the warn record and then the
\* error record to the console sink.
C8_DefaultScenario ==
    LET warnEntry == ConsoleEntry("warn", formatMessage(last.component, Message, Undefined), NoArgs)
        errorEntry == ConsoleEntry("error", formatMessage(last.component, Message, Undefined), NoArgs)
    IN /\ config = [c \in ComponentName |-> "warn"] /\ tagFilters = EmptyMap
       /\ calls <= 2 => console = <<>>
       /\ calls = 3 => console = <<warnEntry>>
       /\ calls = 4 => console = <<warnEntry, errorEntry>>

C8_Witness == calls = 4 /\ last.op = "error" /\ Len(console) = 2 /\ fileLoggingEnabled

\* C9: setComponentLevel(C, L, tags) sets C's level to L; with non-empty tags
\* getTagFilters(C) then returns exactly those tags, with omitted or empty
\* tags it returns undefined.
C9_SetComponentLevel ==
    [][\A c \in InputComponents, level \in LogLevel, t \in FilterInputs :
         setComponentLevel(c, level, t) =>
            /\ config'[c] = level
            /\ ~TagsEmpty(t) =>
                  /\ getTagFilters(c)'.present
                  /\ {getTagFilters(c)'.list[i] : i \in 1..Len(getTagFilters(c)'.list)}
                        = {t.list[i] : i \in 1..Len(t.list)}
                  /\ Len(getTagFilters(c)'.list)
                        = Cardinality({t.list[i] : i \in 1..Len(t.list)})
            /\ TagsEmpty(t) => getTagFilters(c)' = Undefined]_vars

C9_Witness ==
    /\ config["ui"] = "debug"
    /\ getTagFilters("ui") = Arr(<<"validation", "rendering">>)
    /\ getTagFilters("api") = Undefined /\ config["api"] = "error"

\* C10: at most one flush is in flight at any time: no flush chain has a
\* storage operation pending while another one has.
C10_SingleFlushInFlight == Len(flights) <= 1

\* x is an element of the sequence seq.
InSeq(x, seq) == \E k \in 1..Len(seq) : seq[k] = x

\* C11: at-least-once delivery: no record queued in the pending buffer leaves
\* it without being contained in the destination file (clearBuffer, the
\* explicit discard, aside), so that a later flush can still deliver it.
C11_NoRecordLost ==
    [][~clearBuffer =>
         \A k \in 1..Len(logBuffer) :
            InSeq(logBuffer[k], logBuffer') \/ InSeq(logBuffer[k], fileContent')]_vars

\* A chunk of the buffer or of the file is a failure report of the logger.
IsFailureReport(chunk) == chunk.text.component = "[Logger]"

Count(x, seq) == Cardinality({k \in 1..Len(seq) : seq[k] = x})

\* The batch queued in SpecRetry: the start banner and the records of the
\* error calls made so far.
RetryBatch ==
    <<startBanner>> \o [k \in 1..calls |->
                          formatForFile("api", "error", Messages[k], Undefined, NoArgs)]

\* C13: retry without duplicates: once a flush chain has ended with its write
\* rejected, the buffer still holds the whole batch; once the next flush has
\* ended with its write resolved, the buffer is empty and the file holds each
\* record of the batch exactly once.
C13_RetryNoDuplicates ==
    (inits = 1 /\ Len(flights) = 0) =>
        /\ (flushes >= 1 /\ flushes = faults) => logBuffer = RetryBatch
        /\ flushes = faults + 1 =>
              /\ logBuffer = <<>>
              /\ \A k \in 1..Len(RetryBatch) : Count(RetryBatch[k], fileContent) = 1

\* One write rejected, the next flush appended the banner and two records to
\* the file that was there.
C13_Witness ==
    /\ faults = 1 /\ flushes = 2 /\ Len(flights) = 0 /\ calls = 2
    /\ console[Len(console)] = FailureReport("Failed to write to log file (append):")
    /\ logBuffer = <<>>
    /\ fileContent = <<OldContent(maxFileSize)>> \o RetryBatch

AcceptedRecords ==
    [k \in 1..Len(console) |->
        formatForFile("api", "info", console[k].text.message, Undefined, NoArgs)]

\* The sequence seq ends with the sequence tail.
EndsWith(seq, tail) ==
    /\ Len(tail) <= Len(seq)
    /\ SubSeq(seq, Len(seq) - Len(tail) + 1, Len(seq)) = tail

\* C15: once N = maxBufferSize info calls have been accepted after
\* initFileLogging, exactly one flush has been started, and its one write
\* carries the N records combined: it is pending with them or has put them
\* at the end of the file.
C15_OneCombinedWrite ==
    Len(console) = maxBufferSize =>
        /\ flushes = 1
        /\ \/ \E i \in 1..Len(flights) : flights[i].content = AcceptedRecords
           \/ Len(flights) = 0 /\ EndsWith(fileContent, AcceptedRecords)

\* C16: disableFileLogging called while enabled with a non-empty buffer starts
\* a flush of that buffer and leaves the sink disabled; the flush chain it
\* started eventually ends although the sink is disabled by then, and a chain
\* only ends by having put the content it captured at the end of the file.
C16_DisableFlushes ==
    /\ [][(fileLoggingEnabled /\ ~fileLoggingEnabled' /\ Len(logBuffer) > 0) =>
            /\ flights' = Append(flights, NewFlight(logBuffer))
            /\ logBuffer' = logBuffer]_vars
    /\ [][Len(flights') < Len(flights) =>
            \E i \in 1..Len(flights) :
                /\ flights' = RemoveAt(flights, i)
                /\ EndsWith(fileContent', flights[i].content)]_vars
    /\ (last.op = "disableFileLogging" /\ ~fileLoggingEnabled /\ Len(flights) > 0)
          ~> (Len(flights) = 0)

\* The sink is disabled, nothing is in flight any more, and the file that
\* was there ends with the banner and the record pending at the call.
C16_Witness ==
    /\ last.op = "disableFileLogging" /\ ~fileLoggingEnabled
    /\ flights = <<>> /\ calls = 1
    /\ fileContent = <<OldContent(maxFileSize), startBanner,
                        formatForFile("api", "error", Messages[1], Undefined, NoArgs)>>

\* C17: after disableFileLogging and until the next initFileLogging, a logging
\* call appends nothing to the pending buffer, starts no storage operation
\* and leaves the file alone, while its accepted record still reaches the
\* console sink.
C17_DisabledDropsAppends ==
    [][(inits >= 1 /\ ~fileLoggingEnabled /\ calls' = calls + 1) =>
          /\ logBuffer' = logBuffer
          /\ flights' = flights
          /\ fileContent' = fileContent /\ fileExists' = fileExists
          /\ console' = Append(console,
                ConsoleEntry("error", formatMessage("api", Messages[calls + 1], Undefined),
                             NoArgs))]_vars

\* An error logged after the sink was disabled: it is on the console, the
\* buffer holds the start banner only, whose flush is still pending.
C17_Witness ==
    /\ inits = 1 /\ ~fileLoggingEnabled /\ last.op = "error"
    /\ console = <<ConsoleEntry("error", formatMessage("api", Messages[1], Undefined), NoArgs)>>
    /\ logBuffer = <<startBanner>>
    /\ flights = <<NewFlight(<<startBanner>>)>>

\* C18: flush idempotence: a flush() that directly follows a flush(), no other
\* call in between, starts no storage operation, so the two produce at most
\* one write; and a flush() on an empty pending buffer starts none either.
C18_FlushIdempotent ==
    /\ [][(last.op = "flush" /\ last'.op = "flush") => Len(flights') <= Len(flights)]_vars
    /\ [][(Len(logBuffer) = 0 /\ last'.op = "flush") => Len(flights') <= Len(flights)]_vars

\* The step completes the pending storage operation of flush chain i and the
\* chain goes on.
Advances(i) == Len(flights') = Len(flights) /\ flights'[i] # flights[i]

\* The step resolves the write of flush chain i, which ends.
Written(i) ==
    /\ flights[i].stage = "write"
    /\ flights' = RemoveAt(flights, i)
    /\ faults' = faults

\* C19: rotation: when the stat of a flush finds the file larger than 1 MB,
\* the flush goes on to a write without reading: the rotation banner followed
\* by the content the flush captured; and when that write resolves the file
\* holds exactly that, nothing of what it held before.
C19_Rotation ==
    /\ [][\A i \in 1..Len(flights) :
            (flights[i].stage = "stat" /\ Advances(i) /\ ByteSize(fileContent) > 1048576) =>
                /\ flights'[i].stage = "write"
                /\ flights'[i].data = <<clearHeader>> \o flights[i].content
                /\ fileContent' = fileContent]_vars
    /\ [][\A i \in 1..Len(flights) :
            (Written(i) /\ flights[i].write = "clear") =>
                /\ fileContent' = <<clearHeader>> \o flights[i].content
                /\ \A k \in 1..Len(fileContent') : fileContent'[k].kind # "old"]_vars

\* A file of 1 MB + 1 byte was replaced by the rotation banner, the start
\* banner and a record.
C19_Witness ==
    /\ calls = 1 /\ flights = <<>> /\ logBuffer = <<>>
    /\ fileContent = <<clearHeader, startBanner,
                        formatForFile("api", "error", Messages[1], Undefined, NoArgs)>>

\* C20: append: when the stat of a flush finds the file no larger than 1 MB
\* (exactly 1 MB included), the flush reads the file; when the read resolves
\* it goes on to write what it read followed by the content it captured; and
\* when that write resolves, what the file held before the write is a prefix
\* of what it holds after it.
C20_Append ==
    /\ [][\A i \in 1..Len(flights) :
            (flights[i].stage = "stat" /\ Advances(i) /\ ByteSize(fileContent) <= 1048576) =>
                flights'[i].stage = "read" /\ fileContent' = fileContent]_vars
    /\ [][\A i \in 1..Len(flights) :
            (flights[i].stage = "read" /\ Advances(i)) =>
                /\ flights'[i].stage = "write"
                /\ flights'[i].data = fileContent \o flights[i].content
                /\ fileContent' = fileContent]_vars
    /\ [][\A i \in 1..Len(flights) :
            (Written(i) /\ flights[i].write = "append") =>
                /\ EndsWith(fileContent', flights[i].content)
                /\ Len(fileContent) <= Len(fileContent')
                /\ SubSeq(fileContent', 1, Len(fileContent)) = fileContent]_vars

\* C21: a flush chain captures the pending buffer, in buffer order, when it
\* is started; when its exists finds no file it goes straight to a write,
\* without stat or read, of exactly that content; and when that write
\* resolves the file holds exactly that content.
C21_CreateFile ==
    /\ [][Len(flights') = Len(flights) + 1 =>
            flights' = Append(flights, NewFlight(logBuffer'))]_vars
    /\ [][\A i \in 1..Len(flights) :
            (flights[i].stage = "exists" /\ Advances(i) /\ ~fileExists) =>
                /\ flights'[i].stage = "write"
                /\ flights'[i].data = flights[i].content
                /\ ~fileExists' /\ fileContent' = fileContent]_vars
    /\ [][\A i \in 1..Len(flights) :
            (Written(i) /\ flights[i].write = "create") =>
                fileExists' /\ fileContent' = flights[i].content]_vars

\* No file at the start: the flush created it with the start banner and the
\* record, in that order.
C21_Witness ==
    /\ calls = 1 /\ flights = <<>> /\ logBuffer = <<>> /\ faults = 0
    /\ fileExists
    /\ fileContent = <<startBanner,
                        formatForFile("api", "error", Messages[1], Undefined, NoArgs)>>

\* The sequence seq begins with the sequence head.
BeginsWith(seq, head) ==
    /\ Len(head) <= Len(seq)
    /\ SubSeq(seq, 1, Len(head)) = head

\* C22: before the first initFileLogging the file sink is disabled and its
\* pending buffer empty; initFileLogging enables it and appends exactly one
\* start banner to the buffer; and every record logged afterwards is appended
\* behind what the buffer holds, so behind that banner.
C22_InitBanner ==
    /\ [](inits = 0 => (~fileLoggingEnabled /\ ~app /\ logBuffer = <<>> /\ flights = <<>>))
    /\ [][inits' = inits + 1 =>
            /\ ~fileLoggingEnabled /\ fileLoggingEnabled' /\ app'
            /\ logBuffer' = Append(logBuffer, startBanner)]_vars
    /\ [][calls' = calls + 1 =>
            /\ BeginsWith(logBuffer', logBuffer)
            /\ fileLoggingEnabled => Len(logBuffer') = Len(logBuffer) + 1]_vars
    /\ [](inits >= 1 /\ fileContent \in {<<>>, <<OldContent(1048576)>>, <<OldContent(1048577)>>}
            /\ Len(logBuffer) > 0 => logBuffer[1] = startBanner)

\* The banner, then the record logged after initFileLogging.
C22_Witness ==
    /\ inits = 1 /\ fileLoggingEnabled /\ last.op = "error"
    /\ logBuffer = <<startBanner,
                     formatForFile("api", "error", Messages[1], Undefined, NoArgs)>>

\* C23: no storage failure reaches the caller. Whether adapter.exists throws
\* when flushBuffer calls it or a pending exists/stat/read/write rejects, no
\* exception ever escapes from error, flush or disableFileLogging; the call
\* finishes its own work (the record is on the console and in the buffer,
\* disableFileLogging lowers the flag); and the call returns before any storage
\* operation completes: the file is as it was and a chain the call started
\* is still waiting for its first operation.
C23_NoFailurePropagates ==
    /\ [](~thrown)
    /\ [][(ThrowFlush \/ ThrowDisableFileLogging \/ ThrowError) =>
            /\ fileExists' = fileExists /\ fileContent' = fileContent
            /\ \/ flights' = flights
               \/ flights' = Append(flights, NewFlight(logBuffer'))]_vars
    /\ [][ThrowDisableFileLogging => ~fileLoggingEnabled']_vars
    /\ [][ThrowError =>
            /\ Len(console') > Len(console)
            /\ console'[Len(console) + 1].method = "error"
            /\ Len(logBuffer') = Len(logBuffer) + 1]_vars
    /\ [][StepRejects => Len(console') = Len(console) + 1 /\ logBuffer' = logBuffer]_vars

\* The tenth record filled the buffer while adapter.exists threw: the call
\* returned, the failure is on the console and the records are still queued.
C23_Witness ==
    /\ ~thrown
    /\ last.op = "error"
    /\ Len(logBuffer) >= maxBufferSize
    /\ Len(console) > 0 /\ console[Len(console)] = SyncFailureReport

\* C24: when the supplementary arguments of an accepted record cannot be
\* serialized to JSON, the call still completes (no exception leaves it), the
\* record reaches the console with its arguments, and, the file sink being
\* enabled, the record is appended to the pending buffer with the placeholder
\* '[Unable to serialize arguments: ...]' in the place of the arguments.
C24_UnserializableArgs ==
    [][\A level \in LogLevel, args \in ArgInputs :
        (/\ Len(args) > 0 /\ stringifyThrows(args)
         /\ shouldLog("api", level, Undefined)
         /\ ArgsLogCall(level, args)) =>
            /\ ~thrown'
            /\ console' = Append(console,
                    ConsoleEntry(level, formatMessage("api", Messages[calls + 1], Undefined),
                                 args))
            /\ fileLoggingEnabled =>
                /\ Len(logBuffer') = Len(logBuffer) + 1
                /\ logBuffer'[Len(logBuffer')].kind = "record"
                /\ logBuffer'[Len(logBuffer')].level = toUpperCase(level)
                /\ logBuffer'[Len(logBuffer')].text =
                        formatMessage("api", Messages[calls + 1], Undefined)
                /\ logBuffer'[Len(logBuffer')].args[1] = "[Unable to serialize arguments: "]_vars

\* C25: in a build whose BUILD_ENV is not 'development' (production, or the
\* constant undefined), a debug call delivers nothing to the console or to
\* the pending buffer, whatever the configuration, component and tags; and
\* in every build an info, warn or error call has the effect that depends on
\* the logger alone, the one it has in a development build: with logging
\* enabled and the level reaching the level of the component, the record goes
\* to the console and, file logging being on, to the pending buffer;
\* otherwise nothing is delivered.
C25_BuildGate ==
    /\ [][\A c \in InputComponents, t \in TagInputs :
            (BUILD_ENV # "development" /\ LogCall("debug", c, t)) => Rejected]_vars
    /\ [][\A c \in InputComponents, level \in {"info", "warn", "error"} :
            LogCall(level, c, Undefined) =>
                IF enabled /\ Rank(level) >= Rank(config[c])
                THEN /\ Accepted(level, c, Undefined)
                     /\ logBuffer' =
                          IF fileLoggingEnabled
                          THEN Append(logBuffer,
                                      [kind |-> "record", timestamp |-> now,
                                       level |-> toUpperCase(level),
                                       text |-> formatMessage(c, Message, Undefined),
                                       args |-> <<>>,
                                       length |-> IsoLength + 6 + StrLen(level)
                                          + MessageLength(formatMessage(c, Message, Undefined))
                                          + 1])
                          ELSE logBuffer
                ELSE Rejected]_vars

\* A debug call on a component at debug level, logging enabled, in the bundle
\* without BUILD_ENV: nothing was delivered.
C25_Witness ==
    /\ BUILD_ENV = NotDefined
    /\ last.op = "debug" /\ calls = 1
    /\ enabled /\ config[last.component] = "debug"
    /\ ~MapHas(tagFilters, last.component)
    /\ console = <<>>
    /\ \A i \in 1..Len(logBuffer) : logBuffer[i].kind = "banner"

\* The position of a numbered message among the logging calls.
MessageIndex(message) == CHOOSE k \in 1..Len(Messages) : Messages[k] = message

\* C26: the destination file preserves call order: of two records in the
\* file, the one that comes first was not logged after the other, within a
\* batch and across batches, also when two flushes are started close together.
C26_CallOrder ==
    \A i, j \in 1..Len(fileContent) :
        (i < j /\ fileContent[i].kind = "record" /\ fileContent[j].kind = "record") =>
            MessageIndex(fileContent[i].text.message)
                <= MessageIndex(fileContent[j].text.message)

\* C27: in every state reached by setConfig, setComponentLevel,
\* clearTagFilters, clearAllTagFilters and setEnabled calls, each of the seven
\* components has one configured level, and it is one of debug, info, warn
\* and error.
C27_OneLevelEach ==
    /\ ComponentName \subseteq DOMAIN config
    /\ \A c \in ComponentName : config[c] \in LogLevel

\* C28: a logging or configuration call that names a component outside the
\* enumeration fails fast: the call is rejected (an exception goes back to
\* the caller), a logging call delivers no record to the console or to the
\* pending buffer, and a configuration call configures nothing.
C28_UnknownComponentFailsFast ==
    /\ [][\A level \in LogLevel, t \in {Undefined, Arr(<<"validation">>)} :
            UnknownLogCall(level, UnknownComponent, t) =>
                /\ thrown'
                /\ UNCHANGED <<console, logBuffer>>]_vars
    /\ [][\A l \in LogLevel, t \in {Undefined, Arr(<<"validation">>)} :
            (setComponentLevel(UnknownComponent, l, t) /\ Configures) =>
                /\ thrown'
                /\ UNCHANGED <<config, tagFilters>>]_vars

\* C29: a handle made by createLogger(C) is bound to C. Whatever the message
\* arguments, info, warn and error on the handle change the console and the
\* pending buffer as logger.info, logger.warn and logger.error with component
\* C do, and what the handle emits is decided by the level and the tag filter
\* C has when the call is made, not by those it had when the handle was made:
\* the record is delivered exactly when logging is enabled and the level
\* reaches the present level of C (for debug: in a development build, and
\* subject to the present tag filter of C).
C29_HandleBoundToComponent ==
    /\ [][\A h \in handles, level \in {"info", "warn", "error"}, args \in HandleArgs :
            (/\ calls' = calls + 1 /\ last'.op = level /\ last'.component = h.component
             /\ HandleLogCall(h, level, args)) =>
                /\ emit(level, h.component, Message, Undefined, args)
                /\ IF enabled /\ Rank(level) >= Rank(config[h.component])
                   THEN /\ console' = Append(console,
                              ConsoleEntry(level,
                                  formatMessage(h.component, Message, Undefined), args))
                        /\ Len(logBuffer') = Len(logBuffer) + (IF fileLoggingEnabled THEN 1 ELSE 0)
                   ELSE Rejected]_vars
    /\ [][\A h \in handles, args \in HandleArgs :
          \A lastArray \in {Undefined, Arr(<<"validation">>)} :
            (/\ calls' = calls + 1 /\ last'.op = "debug" /\ last'.component = h.component
             /\ HandleDebugCall(h, IF lastArray.present
                                   THEN Append(args, TagsArrayArg) ELSE args)) =>
                IF EmitsUnder(tagFilters, h.component, "debug", lastArray)
                THEN /\ console' = Append(console,
                              ConsoleEntry("debug",
                                  formatMessage(h.component, Message, lastArray), args))
                     /\ Len(logBuffer') = Len(logBuffer) + (IF fileLoggingEnabled THEN 1 ELSE 0)
                ELSE Rejected]_vars

\* A handle made while its component was at the default level warn delivered
\* an info record, with an argument, after the component was set to debug.
C29_Witness ==
    /\ last.op = "info"
    /\ \E h \in handles :
        /\ h.component = last.component
        /\ h.createdAt = "warn"
        /\ config[h.component] = "debug"
    /\ Len(console) = 1
    /\ console[1] = ConsoleEntry("info", formatMessage(last.component, Message, Undefined),
                                 <<"data">>)

\* C30 as stated: clearTagFilters(C) removes the tag filter of C and of no
\* other component, clearAllTagFilters() removes all tag filters, neither
\* changes a level; and once the filter of a component is cleared, every
\* debug record of the component, when it is at debug level, is emitted
\* whatever its tags.
C30_ClearAsStated ==
    /\ [][\A c \in InputComponents :
            (last'.op = "clearTagFilters" /\ last'.component = c /\ clearTagFilters(c)) =>
                /\ ~MapHas(tagFilters', c)
                /\ \A d \in DOMAIN tagFilters \ {c} :
                      MapHas(tagFilters', d) /\ tagFilters'[d] = tagFilters[d]
                /\ config' = config]_vars
    /\ [][(last'.op = "clearAllTagFilters" /\ clearAllTagFilters) =>
                /\ \A c \in ComponentName : ~MapHas(tagFilters', c)
                /\ config' = config]_vars
    /\ [][\A c \in InputComponents, t \in TagInputs :
            (/\ ~MapHas(tagFilters, c) /\ config[c] = "debug"
             /\ LogCall("debug", c, t)) => Accepted("debug", c, t)]_vars

\* C30 (amended): the same, the debug records being emitted provided logging
\* is globally enabled and the build is a development build.
C30_ClearTagFilters ==
    /\ [][\A c \in InputComponents :
            (last'.op = "clearTagFilters" /\ last'.component = c /\ clearTagFilters(c)) =>
                /\ ~MapHas(tagFilters', c)
                /\ \A d \in DOMAIN tagFilters \ {c} :
                      MapHas(tagFilters', d) /\ tagFilters'[d] = tagFilters[d]
                /\ config' = config]_vars
    /\ [][(last'.op = "clearAllTagFilters" /\ clearAllTagFilters) =>
                /\ \A c \in ComponentName : ~MapHas(tagFilters', c)
                /\ config' = config]_vars
    /\ [][\A c \in InputComponents, t \in TagInputs :
            (/\ enabled /\ isDevelopment
             /\ ~MapHas(tagFilters, c) /\ config[c] = "debug"
             /\ LogCall("debug", c, t)) => Accepted("debug", c, t)]_vars

\* clearTagFilters('ui') has just removed the filter of ui, a component at
\* debug level, and left the filter and the level of api as they were.
C30_Witness ==
    /\ last.op = "clearTagFilters" /\ last.component = "ui"
    /\ ~MapHas(tagFilters, "ui") /\ config["ui"] = "debug"
    /\ MapHas(tagFilters, "api") /\ tagFilters["api"] = <<"validation">>
    /\ config["api"] = "info"

\* C31: the file buffer is flushed on error: an accepted error record logged
\* while file logging is enabled starts a flush of the pending buffer, also
\* when the buffer is below its capacity.
C31_FlushOnError ==
    [][(/\ calls' = calls + 1 /\ last'.op = "error"
        /\ fileLoggingEnabled /\ app
        /\ shouldLog(last'.component, "error", Undefined)) =>
            /\ Len(flights') = Len(flights) + 1
            /\ flights'[Len(flights')] = NewFlight(logBuffer')]_vars

\* Line k of a file is a start marker, an end marker.
IsStartLine(lines, k) == trim(lines[k]) = "// DEBUG_START"
IsEndLine(lines, k) == trim(lines[k]) = "// DEBUG_END"

\* Line k lies in a block that is closed: between a start marker and the
\* first end marker after it, the two markers included.
InClosedBlock(lines, k) ==
    \E p \in 1..k, q \in k..Len(lines) :
        /\ p < q /\ IsStartLine(lines, p) /\ IsEndLine(lines, q)
        /\ \A r \in (p + 1)..(q - 1) : ~IsEndLine(lines, r)

\* The lines of a file from line k on whose number is in the set keep, in
\* their order.
RECURSIVE KeptFrom(_, _, _)
KeptFrom(lines, k, keep) ==
    IF k > Len(lines) THEN <<>>
    ELSE (IF k \in keep THEN <<lines[k]>> ELSE <<>>) \o KeptFrom(lines, k + 1, keep)

\* The scanner has returned.
Scanned == cleaner.pc = "done" /\ includesStart(cleaner.lines)

\* C32: removeDebugBlocks removes every start marker line, the end marker
\* that closes its block and the lines between them, and keeps every other
\* line of the input, unchanged and in the original order.
C32_KeepsOtherLines ==
    Scanned =>
        cleaner.newLines =
            KeptFrom(cleaner.lines, 1,
                     {k \in 1..Len(cleaner.lines) :
                        ~IsStartLine(cleaner.lines, k) /\ ~InClosedBlock(cleaner.lines, k)})

\* C33: for unmatched markers the script warns and skips the block: an end
\* marker with no open start marker before it and a start marker with no end
\* marker after it each produce a warning, and no line of such an unmatched
\* block is removed: the result is the input without its closed blocks.
C33_UnmatchedWarnedAndKept ==
    cleaner.pc = "done" =>
        /\ \A q \in 1..Len(cleaner.lines) :
              (IsEndLine(cleaner.lines, q) /\ ~InClosedBlock(cleaner.lines, q)) =>
                  InSeq(EndWithoutStart(q), cleaner.warnings)
        /\ \A p \in 1..Len(cleaner.lines) :
              (IsStartLine(cleaner.lines, p) /\ ~InClosedBlock(cleaner.lines, p)) =>
                  \E k \in 1..Len(cleaner.warnings) :
                      cleaner.warnings[k].warning = "DEBUG_START without DEBUG_END"
        /\ Scanned =>
              cleaner.newLines =
                  KeptFrom(cleaner.lines, 1,
                           {k \in 1..Len(cleaner.lines) : ~InClosedBlock(cleaner.lines, k)})

\* C34: a successful flush removes from the pending buffer only the records
\* its write contained: when the write of a flush resolves, every entry of the
\* buffer that is not part of the content the flush captured is still in the
\* buffer or is in the file.
C34_RemovesOnlyWritten ==
    [][\A i \in 1..Len(flights) :
          Written(i) =>
              \A k \in 1..Len(logBuffer) :
                  ~InSeq(logBuffer[k], flights[i].content) =>
                      \/ InSeq(logBuffer[k], logBuffer')
                      \/ InSeq(logBuffer[k], fileContent')]_vars

\* C35: handle.debug(message, ...args) of a handle of component C takes its
\* last argument as the tags exactly when it is an array whose items are all
\* strings, and the other arguments as the supplementary arguments: with
\* (data, tags) it is logger.debug(C, message, tags, data); with data that is
\* no array it is logger.debug(C, message, undefined, data); an empty array
\* in last position is consumed as an empty tag list, so the record is
\* untagged (and rejected under an active tag filter); an array with an item
\* that is no string, or an array that is not last, stays an argument.
C35_HandleDebugTags ==
    [][\A h \in handles, args \in TagsDebugArgs :
          (/\ calls' = calls + 1 /\ last'.op = "debug" /\ last'.component = h.component
           /\ HandleDebugCall(h, args)) =>
              CASE args = <<"data", TagsArrayArg>> ->
                       debug(h.component, Message, Arr(<<"validation">>), <<"data">>)
                [] args = <<TagsArrayArg>> ->
                       debug(h.component, Message, Arr(<<"validation">>), NoArgs)
                [] args = <<"data">> ->
                       debug(h.component, Message, Undefined, <<"data">>)
                [] args = NoArgs ->
                       debug(h.component, Message, Undefined, NoArgs)
                [] args = <<EmptyArrayArg>> ->
                       /\ debug(h.component, Message, Arr(<<>>), NoArgs)
                       /\ IF EmitsUnder(tagFilters, h.component, "debug", Arr(<<>>))
                          THEN console' = Append(console,
                                   ConsoleEntry("debug",
                                       formatMessage(h.component, Message, Undefined), NoArgs))
                          ELSE Rejected
                       /\ (MapHas(tagFilters, h.component)
                             /\ Len(tagFilters[h.component]) > 0) => Rejected
                [] args = <<"data", MixedArrayArg>> ->
                       debug(h.component, Message, Undefined, <<"data", MixedArrayArg>>)
                [] args = <<TagsArrayArg, "data">> ->
                       debug(h.component, Message, Undefined, <<TagsArrayArg, "data">>)]_vars

\* handle.debug('msg', 'data', ['validation']) of a component whose tag filter
\* holds 'validation' delivered the tagged record with the one argument.
C35_Witness ==
    /\ last.op = "debug"
    /\ MapHas(tagFilters, last.component)
    /\ Len(console) = 1
    /\ console[1] = ConsoleEntry("debug",
                        formatMessage(last.component, Message, Arr(<<"validation">>)),
                        <<"data">>)

\* C36: setComponentLevel(C, L, tags) changes only component C: the level and
\* the tag filter of every other component, the global enable flag, the state
\* of the file sink and the pending buffer are what they were before the call.
\* (The steps of setComponentLevel are those that leave its name in `last`
\* and are no initFileLogging.)
C36_SetLevelOnlyItsComponent ==
    [][\A c \in InputComponents :
          (last'.op = "setComponentLevel" /\ last'.component = c /\ inits' = inits) =>
              /\ \A d \in ComponentName \ {c} :
                    /\ config'[d] = config[d]
                    /\ MapHas(tagFilters', d) = MapHas(tagFilters, d)
                    /\ MapHas(tagFilters, d) => tagFilters'[d] = tagFilters[d]
              /\ enabled' = enabled
              /\ fileLoggingEnabled' = fileLoggingEnabled
              /\ app' = app /\ logFilePath' = logFilePath
              /\ logBuffer' = logBuffer /\ flights' = flights
              /\ fileExists' = fileExists /\ fileContent' = fileContent]_vars

\* setComponentLevel('ui', 'debug', ['validation']) was called with logging
\* globally disabled, a filter on api, and the start banner and an error
\* record pending in the buffer of the enabled file sink.
C36_Witness ==
    /\ last.op = "setComponentLevel" /\ last.component = "ui"
    /\ config["ui"] = "debug" /\ MapHas(tagFilters, "ui")
    /\ config["api"] = "info" /\ MapHas(tagFilters, "api")
    /\ ~enabled /\ fileLoggingEnabled /\ Len(logBuffer) = 2

\* The step is a call of flush(): it leaves its name in `last`, and the flush
\* chains in flight as they were, with at most a new one behind them.
IsFlushCall ==
    /\ last'.op = "flush"
    /\ Len(flights') >= Len(flights)
    /\ SubSeq(flights', 1, Len(flights)) = flights

\* C37: flush() while the file sink is disabled starts no storage operation
\* and leaves the pending buffer, the file and the console as they were, also
\* when the buffer is not empty; no flush chain starts while the sink is and
\* stays disabled; and a flush() called once the sink is enabled again
\* captures what the buffer holds, leftovers included.
C37_FlushWhileDisabled ==
    /\ [][(IsFlushCall /\ ~fileLoggingEnabled) =>
              /\ flights' = flights
              /\ logBuffer' = logBuffer
              /\ fileExists' = fileExists /\ fileContent' = fileContent
              /\ console' = console
              /\ ~fileLoggingEnabled']_vars
    /\ [][(~fileLoggingEnabled /\ ~fileLoggingEnabled') =>
              /\ Len(flights') <= Len(flights)
              /\ logBuffer' = logBuffer \/ logBuffer' = <<>>]_vars
    /\ [][(IsFlushCall /\ fileLoggingEnabled /\ Len(logBuffer) > 0 /\ flights' # flights) =>
              /\ flights' = Append(flights, NewFlight(logBuffer))
              /\ logBuffer' = logBuffer]_vars

\* flush() was called on the disabled sink after the flush forced by
\* disableFileLogging had failed: the start banner is still pending, nothing
\* is in flight and no file was created.
C37_Witness ==
    /\ last.op = "flush" /\ ~fileLoggingEnabled
    /\ faults = 1 /\ inits = 1
    /\ logBuffer = <<startBanner>>
    /\ flights = <<>> /\ ~fileExists

\* C38: clearBuffer() empties the pending buffer, starts no storage operation
\* and changes neither the state of the file sink, nor the configuration,
\* nor the tag filters; and no record of a logging call that it discarded is
\* in the content captured by a flush chain that starts afterwards. (The
\* steps of clearBuffer are those that lengthen `discarded`.)
C38_ClearBufferDiscards ==
    /\ [][Len(discarded') = Len(discarded) + 1 =>
              /\ logBuffer' = <<>>
              /\ flights' = flights
              /\ fileExists' = fileExists /\ fileContent' = fileContent
              /\ fileLoggingEnabled' = fileLoggingEnabled
              /\ app' = app /\ logFilePath' = logFilePath
              /\ config' = config /\ enabled' = enabled
              /\ tagFilters' = tagFilters
              /\ console' = console]_vars
    /\ [][Len(flights') = Len(flights) + 1 =>
              \A d \in 1..Len(discarded') : \A k \in 1..Len(discarded'[d]) :
                  discarded'[d][k].kind = "record" =>
                      ~InSeq(discarded'[d][k], flights'[Len(flights')].content)]_vars

\* clearBuffer discarded the start banner and the record m1; the record m2,
\* logged afterwards, was then flushed to a new file, which holds nothing else.
C38_Witness ==
    /\ Len(discarded) = 1 /\ Len(discarded[1]) = 2
    /\ discarded[1][2] = formatForFile("api", "error", Messages[1], Undefined, NoArgs)
    /\ calls = 2 /\ flights = <<>> /\ logBuffer = <<>>
    /\ fileContent = <<formatForFile("api", "error", Messages[2], Undefined, NoArgs)>>

\* C39: when the stat of a flush resolves with no value the flush is
\* abandoned: its chain ends at the stat, no read and no write is issued,
\* the pending buffer and the file are as they were, and nothing is reported
\* on the console. (In SpecNoStat the steps that count a fault are the stats
\* that resolve with no value.)
C39_StatWithoutValue ==
    [][faults' = faults + 1 =>
          /\ \E i \in 1..Len(flights) :
                flights[i].stage = "stat" /\ flights' = RemoveAt(flights, i)
          /\ \A j \in 1..Len(flights') :
                \E i \in 1..Len(flights) : flights'[j] = flights[i]
          /\ logBuffer' = logBuffer
          /\ fileExists' = fileExists /\ fileContent' = fileContent
          /\ console' = console]_vars

\* The stat of the one flush resolved with no value: the banner and the
\* record are still pending, the file is as it was, and the console holds
\* the record of the error call only.
C39_Witness ==
    /\ faults = 1 /\ flushes = 1 /\ flights = <<>>
    /\ Len(logBuffer) = 2 /\ logBuffer[2].kind = "record"
    /\ fileContent = <<OldContent(maxFileSize)>>
    /\ Len(console) = 1 /\ console[1].method = "error"
    /\ console[1].text.component = "API"

=============================================================================
